---- MODULE Spec2Model ----
(***************************************************************************)
(* Navigation and grouping engine of ccexp: the grouping builder of        *)
(* useFileNavigation, the search filter and flattener of the file list,    *)
(* the cursor state machine of the FileList component with its React       *)
(* effects, and the scroll controller of useVirtualScroll.                 *)
(*                                                                         *)
(* Strings are sequences of one-character strings.  Indices the code       *)
(* keeps (currentGroupIndex, currentFileIndex, scrollOffset, FlatItem      *)
(* fields) are 0-based as in the code; the element at index i of a         *)
(* sequence s is s[i + 1].                                                 *)
(***************************************************************************)
EXTENDS Integers, Sequences, FiniteSets, TLC

VARIABLES
    fileGroups,         \* useFileNavigation: fileGroups
    currentGroupIndex,  \* FileList: currentGroupIndex
    currentFileIndex,   \* FileList: currentFileIndex
    isGroupSelected,    \* FileList: isGroupSelected
    searchQuery,        \* FileList: searchQuery
    isMenuMode,         \* FileList: isMenuMode
    scrollOffset,       \* useVirtualScroll: scrollOffset
    rows,               \* stdout.rows seen by the last render
    exited,             \* process.exit(0) was called
    lastEvent,          \* kind of the event handled last
    allFiles,           \* the combined scan result handed to the builder
    stage,              \* position of the build/filter pipeline
    filtered,           \* result of the pipeline's filterFileGroups call
    navGroups,          \* group list a cursor walk runs on
    navCursor,          \* cursor of the walk
    walkDir,            \* direction of the walk
    walkSteps,          \* moves made by the walk
    walkStart,          \* linear position the walk started from
    path,               \* useFileNavigation: options.path of the last render
    scans,              \* the scans started so far: path and promise status
    lastDone,           \* the scan settled last and the scanner that rejected
    files,              \* useFileNavigation: files
    isLoading,          \* useFileNavigation: isLoading
    error,              \* useFileNavigation: error
    selectedFile,       \* useFileNavigation: selectedFile
    filePath,           \* the path handed to the classifier
    fileType,           \* what detectClaudeFileType returned for it
    fileScope           \* what getFileScope returned for it

vars == <<fileGroups, currentGroupIndex, currentFileIndex, isGroupSelected,
          searchQuery, isMenuMode, scrollOffset, rows, exited, lastEvent,
          allFiles, stage, filtered,
          navGroups, navCursor, walkDir, walkSteps, walkStart,
          path, scans, lastDone, files, isLoading, error, selectedFile,
          filePath, fileType, fileScope>>

uiVars == <<fileGroups, currentGroupIndex, currentFileIndex, isGroupSelected,
            searchQuery, isMenuMode, scrollOffset, rows, exited,
            lastEvent>>

pipeVars == <<allFiles, stage, filtered>>

walkVars == <<navGroups, navCursor, walkDir, walkSteps, walkStart>>

sessVars == <<path, scans, lastDone, files, isLoading, error, selectedFile>>

classVars == <<filePath, fileType, fileScope>>

\* ------------------------------------------------------------------ bounds

MaxQueryLen == 2

MaxToggled == 1

MaxScanLen == 3

MaxWalkGroups == 3

MaxPathDepth == 4

MaxRows == 30

MaxScans == 3

\* ----------------------------------------------------------- basic helpers

Min(a, b) == IF a < b THEN a ELSE b

Max(a, b) == IF a > b THEN a ELSE b

Range(s) == {s[i] : i \in 1..Len(s)}

\* String.prototype.toLowerCase on one character
LowerChar(c) ==
    CASE c = "A" -> "a"
      [] c = "B" -> "b"
      [] c = "C" -> "c"
      [] c = "P" -> "p"
      [] OTHER -> c

toLowerCase(s) == [i \in 1..Len(s) |-> LowerChar(s[i])]

\* String.prototype.includes
includes(s, sub) ==
    \E i \in 0..(Len(s) - Len(sub)) :
        \A j \in 1..Len(sub) : s[i + j] = sub[j]

\* index of the last "/" of s, 0 when there is none
LastSlash(s) ==
    IF \E i \in 1..Len(s) : s[i] = "/"
    THEN CHOOSE i \in 1..Len(s) :
             s[i] = "/" /\ \A j \in (i + 1)..Len(s) : s[j] # "/"
    ELSE 0

\* path.split('/').pop() || ''
SplitPop(s) == SubSeq(s, LastSlash(s) + 1, Len(s))

RECURSIVE StripTrailingSlashes(_)
StripTrailingSlashes(s) ==
    IF Len(s) > 1 /\ s[Len(s)] = "/"
    THEN StripTrailingSlashes(SubSeq(s, 1, Len(s) - 1))
    ELSE s

\* node:path basename: the last portion of the path, trailing separators
\* ignored
basename(s) ==
    LET t == StripTrailingSlashes(s)
    IN  IF t = <<"/">> THEN <<>> ELSE SubSeq(t, LastSlash(t) + 1, Len(t))

\* ------------------------------------------------------------ file records

\* ClaudeFileInfo, reduced to the fields the grouping, the filter and the
\* navigation read: path and type
File(t, p) == [type |-> t, path |-> p]

F1 == File("project-memory", <<"/", "p", "/", "A", ".", "m", "d">>)

F2 == File("project-memory", <<"/", "p", "/", "b", "/", "A", ".", "m", "d">>)

F3 == File("project-memory-local", <<"/", "p", "/", "a", "B", ".", "m", "d">>)

F4 == File("project-command", <<"/", "p", "/", "c", "/", "b", ".", "m", "d">>)

F5 == File("user-memory", <<"/", "h", "/", "A", ".", "m", "d">>)

F6 == File("unknown", <<"/", "p", "/", "x">>)

F7 == File("project-memory", <<"/", "p", "/", "a", ".", "m", "d">>)

FileUniverse == {F1, F2, F3, F4, F5, F6, F7}

\* characters a key press can deliver as printable input
Alphabet == {"a", "B"}

\* sequences over S of length at most n
SeqsUpTo(S, n) == UNION {[1..k -> S] : k \in 0..n}

\* sequences over S of length at most n without a repeated element
DistinctSeqsUpTo(S, n) ==
    {s \in SeqsUpTo(S, n) : \A i, j \in 1..Len(s) : s[i] = s[j] => i = j}

\* ---------------------------------------------------------- grouping builder

\* primary collation order of the characters of the file universe
CollationOrder == <<".", "/", "a", "b", "c", "d", "h", "m", "p", "r", "x">>

PrimaryRank(c) ==
    LET l == LowerChar(c)
    IN  IF \E i \in 1..Len(CollationOrder) : CollationOrder[i] = l
        THEN CHOOSE i \in 1..Len(CollationOrder) : CollationOrder[i] = l
        ELSE Len(CollationOrder) + 1

RECURSIVE PrimaryCompare(_, _)
PrimaryCompare(a, b) ==
    IF a = <<>> /\ b = <<>> THEN 0
    ELSE IF a = <<>> THEN -1
    ELSE IF b = <<>> THEN 1
    ELSE IF PrimaryRank(Head(a)) < PrimaryRank(Head(b)) THEN -1
    ELSE IF PrimaryRank(Head(a)) > PrimaryRank(Head(b)) THEN 1
    ELSE PrimaryCompare(Tail(a), Tail(b))

RECURSIVE CaseCompare(_, _)
CaseCompare(a, b) ==
    IF a = <<>> \/ b = <<>> THEN 0
    ELSE IF Head(a) = Head(b) THEN CaseCompare(Tail(a), Tail(b))
    ELSE IF Head(a) = LowerChar(Head(a)) THEN -1
    ELSE 1

\* String.prototype.localeCompare: letters compare without case first, and
\* at equal letters lower case sorts before upper case
localeCompare(a, b) ==
    IF PrimaryCompare(a, b) # 0 THEN PrimaryCompare(a, b) ELSE CaseCompare(a, b)

\* the comparator handed to group.sort
CompareByName(a, b) == localeCompare(SplitPop(a.path), SplitPop(b.path))

\* insertion ahead of the elements that compare equal
RECURSIVE InsertSorted_BeforeEquals(_, _)
InsertSorted_BeforeEquals(x, s) ==
    IF s = <<>> THEN <<x>>
    ELSE IF CompareByName(Head(s), x) < 0
         THEN <<Head(s)>> \o InsertSorted_BeforeEquals(x, Tail(s))
         ELSE <<x>> \o s

RECURSIVE InsertSorted(_, _)
InsertSorted(x, s) ==
    IF s = <<>> THEN <<x>>
    ELSE IF CompareByName(Head(s), x) <= 0
         THEN <<Head(s)>> \o InsertSorted(x, Tail(s))
         ELSE <<x>> \o s

\* Array.prototype.sort with the comparator: a stable sort
RECURSIVE SortByName(_)
SortByName(s) ==
    IF s = <<>> THEN <<>>
    ELSE InsertSorted(s[Len(s)], SortByName(SubSeq(s, 1, Len(s) - 1)))

\* groupBy(allFiles, file => file.type)[t], sorted; <<>> when the key is absent
groupedFiles(scanned, t) ==
    SortByName(SelectSeq(scanned, LAMBDA f : f.type = t))

\* orderedTypes with the project configurations before the user ones
orderedTypes_ProjectFirst ==
    <<"project-memory", "project-memory-local", "project-settings",
      "project-settings-local", "project-command", "project-subagent",
      "user-memory", "user-settings", "personal-command", "user-subagent",
      "unknown">>

orderedTypes ==
    <<"user-memory", "user-settings", "personal-command", "user-subagent",
      "project-memory", "project-memory-local", "project-settings",
      "project-settings-local", "project-command", "project-subagent",
      "unknown">>

KnownTypes == SelectSeq(orderedTypes, LAMBDA t : t # "unknown")

\* group building that expands every group
buildGroups_AllExpanded(scanned) ==
    LET known == [i \in 1..Len(KnownTypes) |->
                    [type |-> KnownTypes[i],
                     files |-> groupedFiles(scanned, KnownTypes[i]),
                     isExpanded |-> TRUE]]
        unknown == groupedFiles(scanned, "unknown")
    IN  IF Len(unknown) > 0
        THEN Append(known, [type |-> "unknown", files |-> unknown,
                            isExpanded |-> TRUE])
        ELSE known

\* the groups useFileNavigation builds from the combined scan result
buildGroups(scanned) ==
    LET known == [i \in 1..Len(KnownTypes) |->
                    [type |-> KnownTypes[i],
                     files |-> groupedFiles(scanned, KnownTypes[i]),
                     isExpanded |-> Len(groupedFiles(scanned, KnownTypes[i])) > 0]]
        unknown == groupedFiles(scanned, "unknown")
    IN  IF Len(unknown) > 0
        THEN Append(known, [type |-> "unknown", files |-> unknown,
                            isExpanded |-> TRUE])
        ELSE known

\* toggleGroup: flip isExpanded of the group of the given type
toggleGroup(groups, t) ==
    [i \in 1..Len(groups) |->
        IF groups[i].type = t
        THEN [groups[i] EXCEPT !.isExpanded = ~groups[i].isExpanded]
        ELSE groups[i]]

\* number of groups whose isExpanded differs from the value the builder gave
Toggled(groups) ==
    Cardinality({i \in 1..Len(groups) :
        groups[i].isExpanded #
            (groups[i].type = "unknown" \/ Len(groups[i].files) > 0)})

\* ------------------------------------------------------ filter and flattener

\* MatchesQuery that compares without lower-casing
MatchesQuery_CaseSensitive(file, q) ==
    \/ includes(basename(file.path), q)
    \/ includes(file.path, q)

\* the predicate of group.files.filter
MatchesQuery(file, q) ==
    \/ includes(toLowerCase(basename(file.path)), toLowerCase(q))
    \/ includes(toLowerCase(file.path), toLowerCase(q))

\* filterFileGroups without the early return for the empty query
filterFileGroups_NoEmptyShortcut(groups, q) ==
    LET mapped == [i \in 1..Len(groups) |->
            [groups[i] EXCEPT
                !.files = SelectSeq(groups[i].files,
                                    LAMBDA f : MatchesQuery(f, q))]]
    IN  SelectSeq(mapped, LAMBDA g : Len(g.files) > 0)

\* filterFileGroups that loses the first match of every group (slice(1))
filterFileGroups_DropsFirstMatch(groups, q) ==
    IF q = <<>> THEN groups
    ELSE LET matches(i) == SelectSeq(groups[i].files,
                                     LAMBDA f : MatchesQuery(f, q))
             mapped == [i \in 1..Len(groups) |->
                 [groups[i] EXCEPT
                     !.files = IF matches(i) = <<>> THEN <<>>
                               ELSE Tail(matches(i))]]
         IN  SelectSeq(mapped, LAMBDA g : Len(g.files) > 0)

\* filterFileGroups / the filteredGroups memo of FileList
filterFileGroups(groups, q) ==
    IF q = <<>> THEN groups
    ELSE LET mapped == [i \in 1..Len(groups) |->
                 [groups[i] EXCEPT
                     !.files = SelectSeq(groups[i].files,
                                         LAMBDA f : MatchesQuery(f, q))]]
         IN  SelectSeq(mapped, LAMBDA g : Len(g.files) > 0)

GroupItem(gi) == [type |-> "group", groupIndex |-> gi]

FileItem(gi, fi) == [type |-> "file", groupIndex |-> gi, fileIndex |-> fi]

\* FlattenFrom that emits the files of collapsed groups too
RECURSIVE FlattenFrom_IgnoresExpanded(_, _)
FlattenFrom_IgnoresExpanded(groups, gi) ==
    IF gi >= Len(groups) THEN <<>>
    ELSE LET group == groups[gi + 1]
         IN  <<GroupItem(gi)>>
             \o [k \in 1..Len(group.files) |-> FileItem(gi, k - 1)]
             \o FlattenFrom_IgnoresExpanded(groups, gi + 1)

RECURSIVE FlattenFrom(_, _)
FlattenFrom(groups, gi) ==
    IF gi >= Len(groups) THEN <<>>
    ELSE LET group == groups[gi + 1]
         IN  <<GroupItem(gi)>>
             \o (IF group.isExpanded
                 THEN [k \in 1..Len(group.files) |-> FileItem(gi, k - 1)]
                 ELSE <<>>)
             \o FlattenFrom(groups, gi + 1)

\* flattenFileGroups / the flatItems memo of FileList
flattenFileGroups(groups) == FlattenFrom(groups, 0)

\* --------------------------------------------------------- scroll controller

RESERVED_LINES == 9

MIN_VIEWPORT_HEIGHT == 5

MAX_VIEWPORT_HEIGHT == 20

DEFAULT_TERMINAL_ROWS == 24

\* stdout.rows is undefined
NoRows == -1

\* the viewportHeight memo without the maximum
viewportHeight_NoCeiling(r) ==
    Max((IF r = NoRows THEN DEFAULT_TERMINAL_ROWS ELSE r) - RESERVED_LINES,
        MIN_VIEWPORT_HEIGHT)

\* the viewportHeight memo of useVirtualScroll outside the test environment
viewportHeight(r) ==
    LET calculatedHeight ==
            Max(MIN_VIEWPORT_HEIGHT,
                (IF r = NoRows THEN DEFAULT_TERMINAL_ROWS ELSE r)
                    - RESERVED_LINES)
    IN  Min(calculatedHeight, MAX_VIEWPORT_HEIGHT)

\* does the flat item carry the cursor
ItemIsCurrent(item, g, f, sel) ==
    IF item.type = "group"
    THEN sel /\ item.groupIndex = g
    ELSE ~sel /\ item.groupIndex = g /\ item.fileIndex = f

\* getCurrentLinePosition: the position of the first item carrying the
\* cursor, 0 when no item does
getCurrentLinePosition(items, g, f, sel) ==
    IF \E i \in 1..Len(items) : ItemIsCurrent(items[i], g, f, sel)
    THEN (CHOOSE i \in 1..Len(items) :
              /\ ItemIsCurrent(items[i], g, f, sel)
              /\ \A j \in 1..(i - 1) : ~ItemIsCurrent(items[j], g, f, sel)) - 1
    ELSE 0

\* AdjustScroll with the bottom test off by one (> for >=)
AdjustScroll_LateBottom(so, currentLine, totalLines, vh) ==
    LET maxScroll == Max(0, totalLines - vh)
    IN  IF currentLine < so THEN Max(0, currentLine)
        ELSE IF currentLine > so + vh
             THEN Min(maxScroll, currentLine - vh + 1)
             ELSE so

\* AdjustScroll that puts the cursor's line on top of the window when it
\* scrolls down
AdjustScroll_TopAligned(so, currentLine, totalLines, vh) ==
    LET maxScroll == Max(0, totalLines - vh)
    IN  IF currentLine < so THEN Max(0, currentLine)
        ELSE IF currentLine >= so + vh
             THEN Min(maxScroll, currentLine)
             ELSE so

\* AdjustScroll that leaves the offset alone when there are no items
AdjustScroll_SkipsEmpty(so, currentLine, totalLines, vh) ==
    LET maxScroll == Max(0, totalLines - vh)
    IN  IF totalLines = 0 THEN so
        ELSE IF currentLine < so THEN Max(0, currentLine)
        ELSE IF currentLine >= so + vh
             THEN Min(maxScroll, currentLine - vh + 1)
             ELSE so

\* the scroll effect of useVirtualScroll: the scrollOffset it leaves
AdjustScroll(so, currentLine, totalLines, vh) ==
    LET maxScroll == Max(0, totalLines - vh)
    IN  IF currentLine < so THEN Max(0, currentLine)
        ELSE IF currentLine >= so + vh
             THEN Min(maxScroll, currentLine - vh + 1)
             ELSE so

\* the viewStart / viewEnd memo: the start of the visible window
viewStart(so, totalLines, vh) == Max(0, Min(so, totalLines - vh))

\* the viewStart / viewEnd memo: the end of the visible window
viewEnd(so, totalLines, vh) ==
    Min(viewStart(so, totalLines, vh) + vh, totalLines)

\* items.slice(viewStart, viewEnd)
visibleItems(items, so, vh) ==
    SubSeq(items, viewStart(so, Len(items), vh) + 1,
           viewEnd(so, Len(items), vh))

hasTopIndicator(so) == so > 0

hasBottomIndicator(so, vh, totalLines) == so + vh < totalLines

\* ------------------------------------------------------- effects of FileList

\* a cursor with the scroll offset: the state the effects read and write
Cur(g, f, sel, so) == [g |-> g, f |-> f, sel |-> sel, so |-> so]

\* the repair effect (deps filteredGroups, currentGroupIndex,
\* currentFileIndex): the group index it leaves
RepairGroupIndex(c, fg) ==
    IF Len(fg) > 0 /\ c.g >= Len(fg) THEN 0 ELSE c.g

\* the repair effect: the file index it leaves
RepairFileIndex(c, fg) ==
    IF /\ Len(fg) > 0
       /\ c.g < Len(fg)
       /\ fg[c.g + 1].isExpanded
       /\ c.f >= Len(fg[c.g + 1].files)
    THEN 0 ELSE c.f

\* the reset effect (deps searchQuery)
ResetCursor(c) == [c EXCEPT !.g = 0, !.f = 0, !.sel = FALSE]

\* one pass of the effects after a render: every effect reads the values of
\* that render, the state updates are applied together afterwards
EffectPass(c, items, fg, vh, queryChanged) ==
    LET so1 == AdjustScroll(c.so,
                            getCurrentLinePosition(items, c.g, c.f, c.sel),
                            Len(items), vh)
        repaired == [c EXCEPT !.g = RepairGroupIndex(c, fg),
                              !.f = RepairFileIndex(c, fg),
                              !.so = so1]
    IN  IF queryChanged THEN ResetCursor(repaired) ELSE repaired

\* render and run effects until no effect changes the state
RECURSIVE SettleItems(_, _, _, _, _)
SettleItems(c, items, fg, vh, queryChanged) ==
    CHOOSE r \in {IF c1 = c THEN c ELSE SettleItems(c1, items, fg, vh, FALSE) :
                     c1 \in {EffectPass(c, items, fg, vh, queryChanged)}} : TRUE

Settle(c, fg, vh, queryChanged) ==
    CHOOSE r \in {SettleItems(c, items, fg, vh, queryChanged) :
                     items \in {flattenFileGroups(fg)}} : TRUE

\* ------------------------------------------------------ key handling of FileList

\* a key event as useInput delivers it: the input text and the key flags
Key(input, flags) ==
    [input |-> input,
     upArrow |-> "upArrow" \in flags, downArrow |-> "downArrow" \in flags,
     return |-> "return" \in flags, escape |-> "escape" \in flags,
     ctrl |-> "ctrl" \in flags, backspace |-> "backspace" \in flags,
     delete |-> "delete" \in flags, tab |-> "tab" \in flags]

UpKey == Key(<<>>, {"upArrow"})

DownKey == Key(<<>>, {"downArrow"})

ReturnKey == Key(<<>>, {"return"})

SpaceKey == Key(<<" ">>, {})

EscapeKey == Key(<<>>, {"escape"})

BackspaceKey == Key(<<>>, {"backspace"})

DeleteKey == Key(<<>>, {"delete"})

CtrlHKey == Key(<<"h">>, {"ctrl"})

CtrlUKey == Key(<<"u">>, {"ctrl"})

CtrlAKey == Key(<<"a">>, {"ctrl"})

TabKey == Key(<<>>, {"tab"})

CharKey(ch) == Key(<<ch>>, {})

\* the state a key handler reads and writes
St(groups, g, f, sel, q, menu, ex) ==
    [groups |-> groups, g |-> g, f |-> f, sel |-> sel, q |-> q,
     menu |-> menu, exited |-> ex]

\* getCurrentPosition / calculateNavigationPosition
getCurrentPosition(fg, g, f, sel) ==
    [type |-> IF sel THEN "group" ELSE "file",
     isFirstInGroup |-> f = 0,
     hasFileAbove |-> ~sel /\ f > 0,
     hasPrevGroup |-> g > 0,
     hasNextGroup |-> g < Len(fg) - 1,
     prevGroupExists |-> g > 0 /\ g - 1 < Len(fg)]

\* handleUpArrow that always lands on the header of the previous group
handleUpArrow_PrevHeader(fg, c) ==
    LET pos == getCurrentPosition(fg, c.g, c.f, c.sel)
    IN  IF pos.type = "file" /\ pos.hasFileAbove
        THEN [c EXCEPT !.f = c.f - 1]
        ELSE IF pos.type = "file" /\ pos.isFirstInGroup
        THEN [c EXCEPT !.sel = TRUE]
        ELSE IF pos.type = "group" /\ pos.hasPrevGroup /\ pos.prevGroupExists
        THEN [c EXCEPT !.g = c.g - 1, !.sel = TRUE]
        ELSE c

\* handleUpArrow of FileList: the cursor it leaves
handleUpArrow(fg, c) ==
    LET pos == getCurrentPosition(fg, c.g, c.f, c.sel)
        prevGroup == fg[c.g]
    IN  IF pos.type = "file" /\ pos.hasFileAbove
        THEN [c EXCEPT !.f = c.f - 1]
        ELSE IF pos.type = "file" /\ pos.isFirstInGroup
        THEN [c EXCEPT !.sel = TRUE]
        ELSE IF pos.type = "group" /\ pos.hasPrevGroup
        THEN IF pos.prevGroupExists /\ prevGroup.isExpanded
                /\ Len(prevGroup.files) > 0
             THEN [c EXCEPT !.g = c.g - 1, !.f = Len(prevGroup.files) - 1,
                            !.sel = FALSE]
             ELSE IF pos.prevGroupExists
             THEN [c EXCEPT !.g = c.g - 1, !.sel = TRUE]
             ELSE c
        ELSE c

\* handleDownArrow that enters the next group at its first file when that
\* group is expanded and has files
handleDownArrow_EntersNext(fg, c) ==
    LET pos == getCurrentPosition(fg, c.g, c.f, c.sel)
        hasGroup == c.g < Len(fg)
        group == fg[c.g + 1]
        next == fg[c.g + 2]
    IN  IF pos.type = "group"
        THEN IF hasGroup /\ group.isExpanded /\ Len(group.files) > 0
             THEN [c EXCEPT !.sel = FALSE, !.f = 0]
             ELSE IF pos.hasNextGroup
             THEN [c EXCEPT !.g = c.g + 1]
             ELSE c
        ELSE IF hasGroup /\ c.f < Len(group.files) - 1
             THEN [c EXCEPT !.f = c.f + 1]
             ELSE IF pos.hasNextGroup
             THEN [c EXCEPT !.g = c.g + 1, !.f = 0,
                            !.sel = ~(next.isExpanded /\ Len(next.files) > 0)]
             ELSE c

\* handleDownArrow of FileList: the cursor it leaves
handleDownArrow(fg, c) ==
    LET pos == getCurrentPosition(fg, c.g, c.f, c.sel)
        hasGroup == c.g < Len(fg)
        group == fg[c.g + 1]
    IN  IF pos.type = "group"
        THEN IF hasGroup /\ group.isExpanded /\ Len(group.files) > 0
             THEN [c EXCEPT !.sel = FALSE, !.f = 0]
             ELSE IF pos.hasNextGroup
             THEN [c EXCEPT !.g = c.g + 1]
             ELSE c
        ELSE IF hasGroup /\ c.f < Len(group.files) - 1
             THEN [c EXCEPT !.f = c.f + 1]
             ELSE IF pos.hasNextGroup
             THEN [c EXCEPT !.g = c.g + 1, !.sel = TRUE, !.f = 0]
             ELSE c

\* getCurrentFile that does not look at isExpanded
hasCurrentFile_IgnoresExpanded(fg, g, f, sel) ==
    /\ ~sel
    /\ Len(fg) # 0
    /\ g < Len(fg)
    /\ Len(fg[g + 1].files) # 0
    /\ f < Len(fg[g + 1].files)

\* getCurrentFile / getFileAtPosition: is there a current file
hasCurrentFile(fg, g, f, sel) ==
    /\ ~sel
    /\ Len(fg) # 0
    /\ g < Len(fg)
    /\ fg[g + 1].isExpanded
    /\ Len(fg[g + 1].files) # 0
    /\ f < Len(fg[g + 1].files)

\* handleConfirm that takes the group to toggle from the unfiltered list
handleConfirm_TogglesByIndex(st) ==
    LET fg == filterFileGroups(st.groups, st.q)
    IN  IF st.sel
        THEN IF st.g < Len(fg)
             THEN [st EXCEPT
                      !.groups = toggleGroup(st.groups,
                                             st.groups[st.g + 1].type)]
             ELSE st
        ELSE IF hasCurrentFile(fg, st.g, st.f, st.sel)
             THEN [st EXCEPT !.menu = TRUE]
             ELSE st

\* the Enter/Space branch of the input handler
handleConfirm(st) ==
    LET fg == filterFileGroups(st.groups, st.q)
    IN  IF st.sel
        THEN IF st.g < Len(fg)
             THEN [st EXCEPT !.groups = toggleGroup(st.groups, fg[st.g + 1].type)]
             ELSE st
        ELSE IF hasCurrentFile(fg, st.g, st.f, st.sel)
             THEN [st EXCEPT !.menu = TRUE]
             ELSE st

\* the navigation branch of the input handler
handleNavigation(st, key) ==
    LET fg == filterFileGroups(st.groups, st.q)
        c == Cur(st.g, st.f, st.sel, 0)
        up == handleUpArrow(fg, c)
        down == handleDownArrow(fg, c)
    IN  IF key.upArrow
        THEN [st EXCEPT !.g = up.g, !.f = up.f, !.sel = up.sel]
        ELSE IF key.downArrow
        THEN [st EXCEPT !.g = down.g, !.f = down.f, !.sel = down.sel]
        ELSE IF key.return \/ key.input = <<" ">>
        THEN handleConfirm(st)
        ELSE st

\* the last branch of the input handler: append printable input; it reads
\* the searchQuery of the render the handler was created in
appendInput(st, q, key) ==
    IF /\ key.input # <<>>
       /\ key.input # <<" ">>
       /\ ~key.return /\ ~key.upArrow /\ ~key.downArrow /\ ~key.escape
    THEN [st EXCEPT !.q = q \o key.input]
    ELSE st

\* String.prototype.slice(0, -1)
DropLast(q) == SubSeq(q, 1, Len(q) - 1)

\* the useInput handler with an Escape branch that always ends the session
handleInput_EscapeExits(st, key) ==
    IF st.menu THEN st
    ELSE IF key.escape
    THEN [st EXCEPT !.exited = TRUE]
    ELSE IF (key.backspace \/ key.delete) /\ st.q # <<>>
    THEN [st EXCEPT !.q = DropLast(st.q)]
    ELSE IF key.ctrl /\ key.input = <<"h">> /\ st.q # <<>>
    THEN [st EXCEPT !.q = DropLast(st.q)]
    ELSE IF key.ctrl /\ key.input = <<"u">> /\ st.q # <<>>
    THEN [st EXCEPT !.q = <<>>]
    ELSE appendInput(handleNavigation(st, key), st.q, key)

\* the useInput handler without the isMenuMode guard
handleInput_NoMenuGuard(st, key) ==
    IF key.escape
    THEN IF st.q # <<>> THEN [st EXCEPT !.q = <<>>]
         ELSE [st EXCEPT !.exited = TRUE]
    ELSE IF (key.backspace \/ key.delete) /\ st.q # <<>>
    THEN [st EXCEPT !.q = DropLast(st.q)]
    ELSE IF key.ctrl /\ key.input = <<"h">> /\ st.q # <<>>
    THEN [st EXCEPT !.q = DropLast(st.q)]
    ELSE IF key.ctrl /\ key.input = <<"u">> /\ st.q # <<>>
    THEN [st EXCEPT !.q = <<>>]
    ELSE appendInput(handleNavigation(st, key), st.q, key)

\* the useInput handler of FileList: the state it leaves
handleInput(st, key) ==
    IF st.menu THEN st
    ELSE IF key.escape
    THEN IF st.q # <<>> THEN [st EXCEPT !.q = <<>>]
         ELSE [st EXCEPT !.exited = TRUE]
    ELSE IF (key.backspace \/ key.delete) /\ st.q # <<>>
    THEN [st EXCEPT !.q = DropLast(st.q)]
    ELSE IF key.ctrl /\ key.input = <<"h">> /\ st.q # <<>>
    THEN [st EXCEPT !.q = DropLast(st.q)]
    ELSE IF key.ctrl /\ key.input = <<"u">> /\ st.q # <<>>
    THEN [st EXCEPT !.q = <<>>]
    ELSE appendInput(handleNavigation(st, key), st.q, key)

\* -------------------------------------------- navigation utilities (pure form)

\* calculateNavigationPosition
calculateNavigationPosition(fg, g, f, sel) ==
    [type |-> IF sel THEN "group" ELSE "file",
     isFirstInGroup |-> f = 0,
     hasFileAbove |-> ~sel /\ f > 0,
     hasPrevGroup |-> g > 0,
     hasNextGroup |-> g < Len(fg) - 1,
     prevGroupExists |-> g > 0 /\ g - 1 < Len(fg),
     prevGroup |-> IF g > 0 /\ g - 1 < Len(fg)
                   THEN [index |-> g - 1, isExpanded |-> fg[g].isExpanded,
                         files |-> fg[g].files]
                   ELSE [index |-> g - 1, isExpanded |-> FALSE,
                         files |-> <<>>]]

\* a NavigationResult
Nav(g, f, sel) == [g |-> g, f |-> f, sel |-> sel]

\* handleUpArrowNavigation that leaves the first header downwards instead of
\* staying on it
handleUpArrowNavigation_LeavesTop(position, g, f) ==
    IF position.type = "file" /\ position.hasFileAbove
    THEN Nav(g, f - 1, FALSE)
    ELSE IF position.type = "file" /\ position.isFirstInGroup
    THEN Nav(g, f, TRUE)
    ELSE IF /\ position.type = "group"
            /\ position.hasPrevGroup
            /\ position.prevGroupExists
    THEN IF /\ position.prevGroup.isExpanded
            /\ Len(position.prevGroup.files) > 0
         THEN Nav(position.prevGroup.index,
                  Len(position.prevGroup.files) - 1, FALSE)
         ELSE Nav(position.prevGroup.index, 0, TRUE)
    ELSE IF position.type = "group" /\ position.hasNextGroup
    THEN Nav(g + 1, 0, TRUE)
    ELSE Nav(g, f, position.type = "group")

\* handleUpArrowNavigation that stays on the first file of a group
handleUpArrowNavigation_StaysOnFirst(position, g, f) ==
    IF position.type = "file" /\ position.hasFileAbove
    THEN Nav(g, f - 1, FALSE)
    ELSE IF /\ position.type = "group"
            /\ position.hasPrevGroup
            /\ position.prevGroupExists
    THEN IF /\ position.prevGroup.isExpanded
            /\ Len(position.prevGroup.files) > 0
         THEN Nav(position.prevGroup.index,
                  Len(position.prevGroup.files) - 1, FALSE)
         ELSE Nav(position.prevGroup.index, 0, TRUE)
    ELSE Nav(g, f, position.type = "group")

\* handleUpArrowNavigation
handleUpArrowNavigation(position, g, f) ==
    IF position.type = "file" /\ position.hasFileAbove
    THEN Nav(g, f - 1, FALSE)
    ELSE IF position.type = "file" /\ position.isFirstInGroup
    THEN Nav(g, f, TRUE)
    ELSE IF /\ position.type = "group"
            /\ position.hasPrevGroup
            /\ position.prevGroupExists
    THEN IF /\ position.prevGroup.isExpanded
            /\ Len(position.prevGroup.files) > 0
         THEN Nav(position.prevGroup.index,
                  Len(position.prevGroup.files) - 1, FALSE)
         ELSE Nav(position.prevGroup.index, 0, TRUE)
    ELSE Nav(g, f, position.type = "group")

\* handleDownArrowNavigation that goes from a header to the next header
\* without looking at the files of the group
handleDownArrowNavigation_SkipsFiles(position, fg, g, f) ==
    LET hasGroup == g < Len(fg)
        group == fg[g + 1]
    IN  IF position.type = "group" /\ position.hasNextGroup
        THEN Nav(g + 1, 0, TRUE)
        ELSE IF /\ position.type = "file"
                /\ hasGroup /\ f < Len(group.files) - 1
        THEN Nav(g, f + 1, FALSE)
        ELSE IF position.type = "file" /\ position.hasNextGroup
        THEN Nav(g + 1, 0, TRUE)
        ELSE Nav(g, f, position.type = "group")

\* handleDownArrowNavigation
handleDownArrowNavigation(position, fg, g, f) ==
    LET hasGroup == g < Len(fg)
        group == fg[g + 1]
    IN  IF /\ position.type = "group"
           /\ hasGroup /\ group.isExpanded /\ Len(group.files) > 0
        THEN Nav(g, 0, FALSE)
        ELSE IF position.type = "group" /\ position.hasNextGroup
        THEN Nav(g + 1, 0, TRUE)
        ELSE IF /\ position.type = "file"
                /\ hasGroup /\ f < Len(group.files) - 1
        THEN Nav(g, f + 1, FALSE)
        ELSE IF position.type = "file" /\ position.hasNextGroup
        THEN Nav(g + 1, 0, TRUE)
        ELSE Nav(g, f, position.type = "group")


\* ------------------------------------------------------- the interactive list

\* scan results the session is started on
ScanA == <<F2, F1, F3, F4>>

ScanB == <<F5, F1, F6>>

Scans == {ScanA, ScanB}

\* terminal heights: unknown (a viewport of 15 rows) and 14 (the minimum
\* viewport of 5 rows)
RowsValues == {NoRows, 14}

filteredGroups == filterFileGroups(fileGroups, searchQuery)

flatItems == flattenFileGroups(filteredGroups)

totalLines == Len(flatItems)

PipeIdle == allFiles = <<>> /\ stage = "idle" /\ filtered = <<>>

WalkIdle ==
    /\ navGroups = <<>>
    /\ navCursor = Cur(0, 0, FALSE, 0)
    /\ walkDir = "none"
    /\ walkSteps = 0
    /\ walkStart = 0

\* error is undefined
Undefined == "<undefined>"

\* selectedFile is undefined
NoFile == File("<undefined>", <<>>)

Done(n, scanner) == [n |-> n, scanner |-> scanner]

SessIdle ==
    /\ path = ""
    /\ scans = <<>>
    /\ lastDone = Done(0, "none")
    /\ files = <<>>
    /\ isLoading = FALSE
    /\ error = Undefined
    /\ selectedFile = NoFile

\* no path has been handed to the classifier
ClassIdle == filePath = <<>> /\ fileType = Undefined /\ fileScope = Undefined

\* the list as first shown: the scan has completed, FileList is mounted and
\* its mount effects have run
Init ==
    /\ \E scan \in Scans : fileGroups = buildGroups(scan)
    /\ rows \in RowsValues
    /\ searchQuery = <<>>
    /\ isMenuMode = FALSE
    /\ exited = FALSE
    /\ lastEvent = "mount"
    /\ \E c \in {Settle(Cur(0, 0, FALSE, 0), fileGroups,
                        viewportHeight(rows), TRUE)} :
        /\ currentGroupIndex = c.g
        /\ currentFileIndex = c.f
        /\ isGroupSelected = c.sel
        /\ scrollOffset = c.so
    /\ PipeIdle
    /\ WalkIdle
    /\ SessIdle
    /\ ClassIdle

\* the kind of a key event
KeyKind(key) ==
    IF key.upArrow THEN "up"
    ELSE IF key.downArrow THEN "down"
    ELSE IF key.return \/ key.input = <<" ">> THEN "confirm"
    ELSE IF key.escape THEN "escape"
    ELSE IF key.backspace \/ key.delete \/ (key.ctrl /\ key.input = <<"h">>)
    THEN "clearOne"
    ELSE IF key.ctrl /\ key.input = <<"u">> THEN "clearAll"
    ELSE IF key.input # <<>> /\ ~key.ctrl THEN "char"
    ELSE "other"

\* a key event: the input handler, the render and the effects that follow
KeyPress(key) ==
    /\ ~exited
    /\ ~isMenuMode
    /\ \E r \in {handleInput(St(fileGroups, currentGroupIndex,
                                currentFileIndex, isGroupSelected,
                                searchQuery, isMenuMode, exited), key)} :
        /\ Len(r.q) <= MaxQueryLen
        /\ Toggled(r.groups) <= MaxToggled
        /\ fileGroups' = r.groups
        /\ searchQuery' = r.q
        /\ isMenuMode' = r.menu
        /\ exited' = r.exited
        /\ \E c \in {Settle(Cur(r.g, r.f, r.sel, scrollOffset),
                            filterFileGroups(r.groups, r.q),
                            viewportHeight(rows), r.q # searchQuery)} :
            /\ currentGroupIndex' = c.g
            /\ currentFileIndex' = c.f
            /\ isGroupSelected' = c.sel
            /\ scrollOffset' = c.so
    /\ lastEvent' = KeyKind(key)
    /\ UNCHANGED <<rows, pipeVars, walkVars, sessVars, classVars>>

PressUp == KeyPress(UpKey)

PressDown == KeyPress(DownKey)

PressReturn == KeyPress(ReturnKey)

PressSpace == KeyPress(SpaceKey)

PressEscape == KeyPress(EscapeKey)

PressBackspace == KeyPress(BackspaceKey)

PressDelete == KeyPress(DeleteKey)

PressCtrlH == KeyPress(CtrlHKey)

PressCtrlU == KeyPress(CtrlUKey)

PressCtrlA == KeyPress(CtrlAKey)

PressTab == KeyPress(TabKey)

TypeChar == \E ch \in Alphabet : KeyPress(CharKey(ch))

\* onClose of the file-action menu
CloseMenu ==
    /\ ~exited
    /\ isMenuMode
    /\ isMenuMode' = FALSE
    /\ lastEvent' = "closeMenu"
    /\ UNCHANGED <<fileGroups, currentGroupIndex, currentFileIndex,
                   isGroupSelected, searchQuery, scrollOffset, rows, exited,
                   pipeVars, walkVars, sessVars, classVars>>

\* the terminal is resized and the list renders again
Resize ==
    /\ ~exited
    /\ \E r \in RowsValues :
        /\ r # rows
        /\ rows' = r
        /\ \E c \in {Settle(Cur(currentGroupIndex, currentFileIndex,
                                isGroupSelected, scrollOffset),
                            filteredGroups, viewportHeight(r), FALSE)} :
            /\ currentGroupIndex' = c.g
            /\ currentFileIndex' = c.f
            /\ isGroupSelected' = c.sel
            /\ scrollOffset' = c.so
    /\ lastEvent' = "resize"
    /\ UNCHANGED <<fileGroups, searchQuery, isMenuMode, exited,
                   pipeVars, walkVars, sessVars, classVars>>

Next ==
    \/ PressUp
    \/ PressDown
    \/ PressReturn
    \/ PressSpace
    \/ PressEscape
    \/ PressBackspace
    \/ PressDelete
    \/ PressCtrlH
    \/ PressCtrlU
    \/ PressCtrlA
    \/ PressTab
    \/ TypeChar
    \/ CloseMenu
    \/ Resize

Spec == Init /\ [][Next]_vars

\* ------------------------------------------- the list under terminal resizes

\* terminal heights: stdout.rows is missing or 1 to MaxRows
RowsRange == {NoRows} \cup 1..MaxRows

\* the list has mounted over the groups of a scan on a terminal that reports
\* no height
InitResize ==
    /\ fileGroups = buildGroups(ScanA)
    /\ rows = NoRows
    /\ searchQuery = <<>>
    /\ isMenuMode = FALSE
    /\ exited = FALSE
    /\ lastEvent = "mount"
    /\ \E c \in {Settle(Cur(0, 0, FALSE, 0), fileGroups,
                        viewportHeight(rows), TRUE)} :
        /\ currentGroupIndex = c.g
        /\ currentFileIndex = c.f
        /\ isGroupSelected = c.sel
        /\ scrollOffset = c.so
    /\ PipeIdle
    /\ WalkIdle
    /\ SessIdle
    /\ ClassIdle

\* the terminal takes another height and the list renders again
ResizeAny ==
    /\ \E r \in RowsRange :
        /\ r # rows
        /\ rows' = r
        /\ \E c \in {Settle(Cur(currentGroupIndex, currentFileIndex,
                                isGroupSelected, scrollOffset),
                            filteredGroups, viewportHeight(r), FALSE)} :
            /\ currentGroupIndex' = c.g
            /\ currentFileIndex' = c.f
            /\ isGroupSelected' = c.sel
            /\ scrollOffset' = c.so
    /\ lastEvent' = "resize"
    /\ UNCHANGED <<fileGroups, searchQuery, isMenuMode, exited,
                   pipeVars, walkVars, sessVars, classVars>>

NextResize == PressUp \/ PressDown \/ ResizeAny

SpecResize == InitResize /\ [][NextResize]_vars

\* ------------------------------------------------ the build/filter pipeline

\* search queries of at most MaxQueryLen typed characters
Queries == SeqsUpTo(Alphabet, MaxQueryLen)

UiIdle ==
    /\ currentGroupIndex = 0
    /\ currentFileIndex = 0
    /\ isGroupSelected = FALSE
    /\ isMenuMode = FALSE
    /\ scrollOffset = 0
    /\ rows = NoRows
    /\ exited = FALSE
    /\ lastEvent = "none"

\* a scan has returned any list of at most MaxScanLen files, in any order
InitBuild ==
    /\ allFiles \in DistinctSeqsUpTo(FileUniverse, MaxScanLen)
    /\ stage = "scanned"
    /\ fileGroups = <<>>
    /\ searchQuery = <<>>
    /\ filtered = <<>>
    /\ UiIdle
    /\ WalkIdle
    /\ SessIdle
    /\ ClassIdle

\* the completion handler of the scan builds the groups
BuildDone ==
    /\ stage = "scanned"
    /\ fileGroups' = buildGroups(allFiles)
    /\ stage' = "built"
    /\ UNCHANGED <<allFiles, filtered, searchQuery, currentGroupIndex,
                   currentFileIndex, isGroupSelected, isMenuMode,
                   scrollOffset, rows, exited, lastEvent, walkVars, sessVars, classVars>>

\* toggleGroup is called for the type of one of the groups
ToggleBuilt ==
    /\ stage = "built"
    /\ \E i \in 1..Len(fileGroups) :
        /\ fileGroups' = toggleGroup(fileGroups, fileGroups[i].type)
        /\ Toggled(fileGroups') <= MaxToggled
    /\ UNCHANGED <<allFiles, stage, filtered, searchQuery, currentGroupIndex,
                   currentFileIndex, isGroupSelected, isMenuMode,
                   scrollOffset, rows, exited, lastEvent, walkVars, sessVars, classVars>>

\* the groups are filtered with a query
ApplyFilter ==
    /\ stage = "built"
    /\ \E q \in Queries :
        /\ searchQuery' = q
        /\ filtered' = filterFileGroups(fileGroups, q)
    /\ stage' = "filtered"
    /\ UNCHANGED <<allFiles, fileGroups, currentGroupIndex,
                   currentFileIndex, isGroupSelected, isMenuMode,
                   scrollOffset, rows, exited, lastEvent, walkVars, sessVars, classVars>>

NextBuild == BuildDone \/ ToggleBuilt \/ ApplyFilter

SpecBuild == InitBuild /\ [][NextBuild]_vars

\* ------------------------------------------------------------ cursor walks

\* file lists a group of a walk can hold
WalkFiles == {<<>>, <<F1>>, <<F2, F1>>}

\* group lists of one to MaxWalkGroups groups, each with any of the file
\* lists and either expansion flag
WalkGroupLists ==
    UNION {[1..n -> [type : {"project-memory"}, files : WalkFiles,
                     isExpanded : BOOLEAN]] : n \in 1..MaxWalkGroups}

\* the cursor that stands for a flat item
CursorOfItem(item) ==
    IF item.type = "group" THEN Nav(item.groupIndex, 0, TRUE)
    ELSE Nav(item.groupIndex, item.fileIndex, FALSE)

\* the flat item a cursor stands for
ItemOfCursor(c) ==
    IF c.sel THEN GroupItem(c.g) ELSE FileItem(c.g, c.f)

navItems == flattenFileGroups(navGroups)

\* a walk down starts on the first item, a walk up on any item
InitWalk ==
    /\ navGroups \in WalkGroupLists
    /\ walkSteps = 0
    /\ \/ /\ walkDir = "down"
          /\ walkStart = 0
          /\ navCursor = CursorOfItem(navItems[1])
       \/ /\ walkDir = "up"
          /\ walkStart \in 0..(Len(navItems) - 1)
          /\ navCursor = CursorOfItem(navItems[walkStart + 1])
    /\ fileGroups = <<>>
    /\ searchQuery = <<>>
    /\ UiIdle
    /\ PipeIdle
    /\ SessIdle
    /\ ClassIdle

\* one more move-down, up to two moves past the number of items
WalkDown ==
    /\ walkDir = "down"
    /\ walkSteps < Len(navItems) + 2
    /\ navCursor' = handleDownArrowNavigation(
                        calculateNavigationPosition(navGroups, navCursor.g,
                                                    navCursor.f, navCursor.sel),
                        navGroups, navCursor.g, navCursor.f)
    /\ walkSteps' = walkSteps + 1
    /\ UNCHANGED <<navGroups, walkDir, walkStart, uiVars, pipeVars, sessVars, classVars>>

\* one more move-up, up to two moves past the number of items
WalkUp ==
    /\ walkDir = "up"
    /\ walkSteps < Len(navItems) + 2
    /\ navCursor' = handleUpArrowNavigation(
                        calculateNavigationPosition(navGroups, navCursor.g,
                                                    navCursor.f, navCursor.sel),
                        navCursor.g, navCursor.f)
    /\ walkSteps' = walkSteps + 1
    /\ UNCHANGED <<navGroups, walkDir, walkStart, uiVars, pipeVars, sessVars, classVars>>

NextWalk == WalkDown \/ WalkUp

SpecWalk == InitWalk /\ [][NextWalk]_vars

\* ------------------------------------------------------- the scan session

\* the message setError falls back to
DefaultErrorMessage == "Failed to scan files"

\* SlashCommandInfo and SubAgentInfo, reduced to filePath and scope
Command(p, scope) == [filePath |-> p, scope |-> scope]

convertSlashCommandToFileInfo(command) ==
    File(IF command.scope = "user" THEN "personal-command"
         ELSE "project-command", command.filePath)

convertSubAgentToFileInfo(agent) ==
    File(IF agent.scope = "project" THEN "project-subagent"
         ELSE "user-subagent", agent.filePath)

\* the four scanners Promise.all waits for, in the order of its array
Scanners ==
    <<"scanClaudeFiles", "scanSlashCommands", "scanSubAgents",
      "scanSettingsJson">>

\* what the four scanners find under a root: a project, a home directory
\* and a directory without Claude files
ScanOutput(p) ==
    CASE p = "/p" ->
            [claudeFiles |-> <<F2, F1>>,
             slashCommands |->
                 <<Command(<<"/", "p", "/", "c", "/", "b", ".", "m", "d">>,
                           "project")>>,
             subAgents |-> <<>>,
             settingsFiles |-> <<>>]
      [] p = "/h" ->
            [claudeFiles |-> <<F5>>,
             slashCommands |-> <<>>,
             subAgents |->
                 <<Command(<<"/", "h", "/", "r", ".", "m", "d">>, "user")>>,
             settingsFiles |->
                 <<File("user-settings", <<"/", "h", "/", "x">>)>>]
      [] OTHER ->
            [claudeFiles |-> <<>>, slashCommands |-> <<>>,
             subAgents |-> <<>>, settingsFiles |-> <<>>]

Paths == {"/p", "/h", "/e"}

\* messages of the Error a scanner rejects with
ErrorMessages == {"", "EACCES: permission denied"}

\* the allFiles of the completion handler
combineResults(r) ==
    r.claudeFiles
        \o [i \in 1..Len(r.slashCommands) |->
                convertSlashCommandToFileInfo(r.slashCommands[i])]
        \o [i \in 1..Len(r.subAgents) |->
                convertSubAgentToFileInfo(r.subAgents[i])]
        \o r.settingsFiles

\* the first file of the first group that holds a file, selectedFile kept
\* when there is none
autoSelect(groups, selected) ==
    IF \E i \in 1..Len(groups) : Len(groups[i].files) > 0
    THEN groups[CHOOSE i \in 1..Len(groups) :
                    /\ Len(groups[i].files) > 0
                    /\ \A j \in 1..(i - 1) : Len(groups[j].files) = 0].files[1]
    ELSE selected

\* `if (error)`: undefined and the empty string are falsy
Truthy(e) == e # Undefined /\ e # ""

\* the screen App renders
Display(e, loading, fs) ==
    IF Truthy(e) THEN "error"
    ELSE IF loading THEN "loading"
    ELSE IF Len(fs) = 0 THEN "no-files"
    ELSE "list"

Scan(p, status) == [path |-> p, status |-> status]

\* useFileNavigation has mounted: its state is the initial one and its
\* effect has started the first scan
InitSession ==
    /\ path \in Paths
    /\ scans = <<Scan(path, "pending")>>
    /\ lastDone = Done(0, "none")
    /\ files = <<>>
    /\ fileGroups = <<>>
    /\ selectedFile = NoFile
    /\ isLoading = TRUE
    /\ error = Undefined
    /\ searchQuery = <<>>
    /\ currentGroupIndex = 0
    /\ currentFileIndex = 0
    /\ isGroupSelected = FALSE
    /\ isMenuMode = FALSE
    /\ scrollOffset = 0
    /\ rows = NoRows
    /\ exited = FALSE
    /\ lastEvent = "mount"
    /\ PipeIdle
    /\ WalkIdle
    /\ ClassIdle

\* a render with another path: the effect runs again and starts a scan
ChangePath ==
    /\ Len(scans) < MaxScans
    /\ \E p \in Paths \ {path} :
        /\ path' = p
        /\ scans' = Append(scans, Scan(p, "pending"))
    /\ lastEvent' = "pathChange"
    /\ UNCHANGED <<lastDone, files, fileGroups, selectedFile, isLoading,
                   error, searchQuery, currentGroupIndex, currentFileIndex,
                   isGroupSelected, isMenuMode, scrollOffset, rows, exited,
                   pipeVars, walkVars, classVars>>

\* the four promises of a scan are fulfilled: the then-handler runs
ScanResolves ==
    /\ \E n \in 1..Len(scans) :
        /\ scans[n].status = "pending"
        /\ scans' = [scans EXCEPT ![n].status = "ok"]
        /\ lastDone' = Done(n, "none")
        /\ \E all \in {combineResults(ScanOutput(scans[n].path))} :
            /\ fileGroups' = buildGroups(all)
            /\ files' = all
            /\ selectedFile' = autoSelect(buildGroups(all), selectedFile)
    /\ isLoading' = FALSE
    /\ lastEvent' = "scanOk"
    /\ UNCHANGED <<path, error, searchQuery, currentGroupIndex,
                   currentFileIndex, isGroupSelected, isMenuMode,
                   scrollOffset, rows, exited, pipeVars, walkVars, classVars>>

\* ScanRejects whose catch-handler does not end loading
ScanRejects_KeepsLoading ==
    /\ \E n \in 1..Len(scans), k \in 1..Len(Scanners), msg \in ErrorMessages :
        /\ scans[n].status = "pending"
        /\ scans' = [scans EXCEPT ![n].status = "rejected"]
        /\ lastDone' = Done(n, Scanners[k])
        /\ error' = IF msg # "" THEN msg ELSE DefaultErrorMessage
    /\ lastEvent' = "scanFail"
    /\ UNCHANGED <<path, files, fileGroups, selectedFile, isLoading,
                   searchQuery, currentGroupIndex, currentFileIndex,
                   isGroupSelected, isMenuMode, scrollOffset, rows, exited,
                   pipeVars, walkVars, classVars>>

\* one of the four promises of a scan is rejected: the catch-handler runs
ScanRejects ==
    /\ \E n \in 1..Len(scans), k \in 1..Len(Scanners), msg \in ErrorMessages :
        /\ scans[n].status = "pending"
        /\ scans' = [scans EXCEPT ![n].status = "rejected"]
        /\ lastDone' = Done(n, Scanners[k])
        /\ error' = IF msg # "" THEN msg ELSE DefaultErrorMessage
    /\ isLoading' = FALSE
    /\ lastEvent' = "scanFail"
    /\ UNCHANGED <<path, files, fileGroups, selectedFile, searchQuery,
                   currentGroupIndex, currentFileIndex, isGroupSelected,
                   isMenuMode, scrollOffset, rows, exited, pipeVars,
                   walkVars, classVars>>

\* the file list is on screen and calls onToggleGroup for one of its groups
ListToggle ==
    /\ Display(error, isLoading, files) = "list"
    /\ \E i \in 1..Len(fileGroups) :
        /\ fileGroups' = toggleGroup(fileGroups, fileGroups[i].type)
        /\ Toggled(fileGroups') <= MaxToggled
    /\ lastEvent' = "toggle"
    /\ UNCHANGED <<path, scans, lastDone, files, selectedFile, isLoading,
                   error, searchQuery, currentGroupIndex, currentFileIndex,
                   isGroupSelected, isMenuMode, scrollOffset, rows, exited,
                   pipeVars, walkVars, classVars>>

NextSession == ChangePath \/ ScanResolves \/ ScanRejects \/ ListToggle

SpecSession == InitSession /\ [][NextSession]_vars

\* ------------------------------------------- the list with the selected file

F8 == File("user-settings", <<"/", "h", "/", "s">>)

ScanC == <<F5, F8, F1, F3>>

\* an onFileSelect effect that never notifies
onFileSelectEffect_KeepsSelection(c, fg, selected) == selected

\* the onFileSelect effect (deps currentGroupIndex, currentFileIndex,
\* filteredGroups, isGroupSelected): selectedFile after selectFile ran
onFileSelectEffect(c, fg, selected) ==
    IF c.sel \/ Len(fg) = 0 THEN selected
    ELSE IF c.g >= Len(fg) THEN selected
    ELSE IF ~fg[c.g + 1].isExpanded \/ Len(fg[c.g + 1].files) = 0 THEN selected
    ELSE IF c.f >= Len(fg[c.g + 1].files) THEN selected
    ELSE fg[c.g + 1].files[c.f + 1]

\* render and run effects until no effect changes the state: selectedFile
\* after every pass notified from the cursor of its render
RECURSIVE SelectPasses(_, _, _, _, _, _)
SelectPasses(c, items, fg, vh, queryChanged, selected) ==
    CHOOSE r \in {IF c1 = c
                  THEN onFileSelectEffect(c, fg, selected)
                  ELSE SelectPasses(c1, items, fg, vh, FALSE,
                                    onFileSelectEffect(c, fg, selected)) :
                     c1 \in {EffectPass(c, items, fg, vh, queryChanged)}} : TRUE

SettleSelection(c, fg, vh, queryChanged, selected) ==
    CHOOSE r \in {SelectPasses(c, items, fg, vh, queryChanged, selected) :
                     items \in {flattenFileGroups(fg)}} : TRUE

\* the scan has completed with its auto-selection, FileList is mounted and
\* its mount effects have run
InitSelect ==
    /\ fileGroups = buildGroups(ScanC)
    /\ rows = NoRows
    /\ searchQuery = <<>>
    /\ isMenuMode = FALSE
    /\ exited = FALSE
    /\ lastEvent = "mount"
    /\ \E c \in {Settle(Cur(0, 0, FALSE, 0), fileGroups,
                        viewportHeight(rows), TRUE)} :
        /\ currentGroupIndex = c.g
        /\ currentFileIndex = c.f
        /\ isGroupSelected = c.sel
        /\ scrollOffset = c.so
    /\ selectedFile = SettleSelection(Cur(0, 0, FALSE, 0), fileGroups,
                                      viewportHeight(rows), TRUE,
                                      autoSelect(fileGroups, NoFile))
    /\ path = ""
    /\ scans = <<>>
    /\ lastDone = Done(0, "none")
    /\ files = <<>>
    /\ isLoading = FALSE
    /\ error = Undefined
    /\ PipeIdle
    /\ WalkIdle
    /\ ClassIdle

\* the state a batch of handler calls leaves, the render and the effects
\* that follow, the notifications to App included
Commit(r, kind) ==
    /\ Len(r.q) <= MaxQueryLen
    /\ Toggled(r.groups) <= MaxToggled
    /\ fileGroups' = r.groups
    /\ searchQuery' = r.q
    /\ isMenuMode' = r.menu
    /\ exited' = r.exited
    /\ \E c \in {Settle(Cur(r.g, r.f, r.sel, scrollOffset),
                        filterFileGroups(r.groups, r.q),
                        viewportHeight(rows), r.q # searchQuery)} :
        /\ currentGroupIndex' = c.g
        /\ currentFileIndex' = c.f
        /\ isGroupSelected' = c.sel
        /\ scrollOffset' = c.so
    /\ selectedFile' = SettleSelection(Cur(r.g, r.f, r.sel, scrollOffset),
                                       filterFileGroups(r.groups, r.q),
                                       viewportHeight(rows),
                                       r.q # searchQuery, selectedFile)
    /\ lastEvent' = kind
    /\ UNCHANGED <<rows, path, scans, lastDone, files, isLoading, error,
                   pipeVars, walkVars, classVars>>

ListKeys ==
    {UpKey, DownKey, ReturnKey, SpaceKey, EscapeKey, BackspaceKey, CtrlUKey}
        \cup {CharKey(ch) : ch \in Alphabet}

\* a key event while the list takes input
ListKey ==
    /\ ~exited
    /\ ~isMenuMode
    /\ \E key \in ListKeys :
        Commit(handleInput(St(fileGroups, currentGroupIndex, currentFileIndex,
                              isGroupSelected, searchQuery, isMenuMode,
                              exited), key),
               KeyKind(key))

\* a key event that reaches the handler of the list while the menu is open
MenuKey ==
    /\ ~exited
    /\ isMenuMode
    /\ \E key \in ListKeys :
        Commit(handleInput(St(fileGroups, currentGroupIndex, currentFileIndex,
                              isGroupSelected, searchQuery, isMenuMode,
                              exited), key),
               "menuKey")

\* two events handled by the handler of one render: both read the state of
\* that render and the last setSearchQuery of the batch is the one kept
Batch(st, key1, key2) ==
    LET r1 == handleInput(st, key1)
        r2 == handleInput(st, key2)
    IN  IF r2.q # st.q THEN r2 ELSE [r2 EXCEPT !.q = r1.q]

\* two printable keys arrive before the list renders again
BurstChars ==
    /\ ~exited
    /\ ~isMenuMode
    /\ \E ch1 \in Alphabet, ch2 \in Alphabet :
        Commit(Batch(St(fileGroups, currentGroupIndex, currentFileIndex,
                        isGroupSelected, searchQuery, isMenuMode, exited),
                     CharKey(ch1), CharKey(ch2)),
               "burstChars")

\* two Backspace keys arrive before the list renders again
BurstClears ==
    /\ ~exited
    /\ ~isMenuMode
    /\ searchQuery # <<>>
    /\ Commit(Batch(St(fileGroups, currentGroupIndex, currentFileIndex,
                       isGroupSelected, searchQuery, isMenuMode, exited),
                    BackspaceKey, BackspaceKey),
              "burstClears")

NextSelect == ListKey \/ MenuKey \/ BurstChars \/ BurstClears \/ CloseMenu

SpecSelect == InitSelect /\ [][NextSelect]_vars

\* ------------------------------------------------------- the file classifier

\* the characters of a string literal of the classifier and of the names the
\* classified paths are made of
Chars(lit) ==
    CASE lit = "CLAUDE.md" -> <<"C", "L", "A", "U", "D", "E", ".", "m", "d">>
      [] lit = "CLAUDE.local.md" ->
            <<"C", "L", "A", "U", "D", "E", ".", "l", "o", "c", "a", "l",
              ".", "m", "d">>
      [] lit = ".md" -> <<".", "m", "d">>
      [] lit = ".claude" -> <<".", "c", "l", "a", "u", "d", "e">>
      [] lit = "/.claude" -> <<"/", ".", "c", "l", "a", "u", "d", "e">>
      [] lit = "/.claude/" -> <<"/", ".", "c", "l", "a", "u", "d", "e", "/">>
      [] lit = "commands" -> <<"c", "o", "m", "m", "a", "n", "d", "s">>
      [] lit = "agents" -> <<"a", "g", "e", "n", "t", "s">>
      [] lit = ".claude/commands" ->
            <<".", "c", "l", "a", "u", "d", "e", "/",
              "c", "o", "m", "m", "a", "n", "d", "s">>
      [] lit = ".claude/agents" ->
            <<".", "c", "l", "a", "u", "d", "e", "/",
              "a", "g", "e", "n", "t", "s">>
      [] lit = "settings.json" ->
            <<"s", "e", "t", "t", "i", "n", "g", "s", ".", "j", "s", "o", "n">>
      [] lit = "settings.local.json" ->
            <<"s", "e", "t", "t", "i", "n", "g", "s", ".", "l", "o", "c", "a",
              "l", ".", "j", "s", "o", "n">>
      [] lit = "x.md" -> <<"x", ".", "m", "d">>
      [] lit = "x" -> <<"x">>
      [] lit = "h" -> <<"h">>
      [] lit = "p" -> <<"p">>

\* homedir(): the home directory is /h
HOME_DIR == <<"/", "h">>

\* node:path join of two normalized parts
join(a, b) == a \o <<"/">> \o b

\* node:path dirname of a path without trailing or repeated separators
dirname(s) ==
    IF LastSlash(s) = 0 THEN <<".">>
    ELSE IF LastSlash(s) = 1 THEN <<"/">>
    ELSE SubSeq(s, 1, LastSlash(s) - 1)

\* String.prototype.endsWith
endsWith(s, suffix) ==
    /\ Len(suffix) <= Len(s)
    /\ SubSeq(s, Len(s) - Len(suffix) + 1, Len(s)) = suffix

\* the closed enumeration ClaudeFileType
ClaudeFileType ==
    {"user-memory", "project-memory", "project-memory-local",
     "project-command", "personal-command", "project-subagent",
     "user-subagent", "project-settings", "project-settings-local",
     "user-settings", "unknown"}

\* the home test of the command and agent rules as a test for the home
\* directory alone
underHome_AnyHomePath(dir, sub) == includes(dir, HOME_DIR)

\* dir.includes(join(HOME_DIR, '.claude', sub))
underHome(dir, sub) ==
    includes(dir, join(join(HOME_DIR, Chars(".claude")), sub))

\* the directory test of the settings rules that accepts every directory
inClaudeDir_Anywhere(dir) == TRUE

\* dir.endsWith('/.claude') || dir.includes('/.claude/')
inClaudeDir(dir) ==
    \/ endsWith(dir, Chars("/.claude"))
    \/ includes(dir, Chars("/.claude/"))

\* no .with clause matches
NoMatch == "<no match>"

\* the .with clauses with the command and agent rules ahead of the memory
\* rules
matchRules_CommandsFirst(fileName, dirPath) ==
    IF endsWith(fileName, Chars(".md")) /\ underHome(dirPath, Chars("commands"))
    THEN "personal-command"
    ELSE IF /\ endsWith(fileName, Chars(".md"))
            /\ includes(dirPath, Chars(".claude/commands"))
    THEN "project-command"
    ELSE IF endsWith(fileName, Chars(".md")) /\ underHome(dirPath, Chars("agents"))
    THEN "user-subagent"
    ELSE IF /\ endsWith(fileName, Chars(".md"))
            /\ includes(dirPath, Chars(".claude/agents"))
    THEN "project-subagent"
    ELSE IF /\ fileName = Chars("CLAUDE.md")
            /\ dirPath = join(HOME_DIR, Chars(".claude"))
    THEN "user-memory"
    ELSE IF fileName = Chars("CLAUDE.md") THEN "project-memory"
    ELSE IF fileName = Chars("CLAUDE.local.md") THEN "project-memory-local"
    ELSE IF /\ fileName = Chars("settings.json")
            /\ dirPath = join(HOME_DIR, Chars(".claude"))
    THEN "user-settings"
    ELSE IF fileName = Chars("settings.json") /\ inClaudeDir(dirPath)
    THEN "project-settings"
    ELSE IF fileName = Chars("settings.local.json") /\ inClaudeDir(dirPath)
    THEN "project-settings-local"
    ELSE NoMatch

\* match([fileName, dirPath]) with its .with clauses: the value of the first
\* clause that matches
matchRules(fileName, dirPath) ==
    IF /\ fileName = Chars("CLAUDE.md")
       /\ dirPath = join(HOME_DIR, Chars(".claude"))
    THEN "user-memory"
    ELSE IF fileName = Chars("CLAUDE.md") THEN "project-memory"
    ELSE IF fileName = Chars("CLAUDE.local.md") THEN "project-memory-local"
    ELSE IF endsWith(fileName, Chars(".md")) /\ underHome(dirPath, Chars("commands"))
    THEN "personal-command"
    ELSE IF /\ endsWith(fileName, Chars(".md"))
            /\ includes(dirPath, Chars(".claude/commands"))
    THEN "project-command"
    ELSE IF endsWith(fileName, Chars(".md")) /\ underHome(dirPath, Chars("agents"))
    THEN "user-subagent"
    ELSE IF /\ endsWith(fileName, Chars(".md"))
            /\ includes(dirPath, Chars(".claude/agents"))
    THEN "project-subagent"
    ELSE IF /\ fileName = Chars("settings.json")
            /\ dirPath = join(HOME_DIR, Chars(".claude"))
    THEN "user-settings"
    ELSE IF fileName = Chars("settings.json") /\ inClaudeDir(dirPath)
    THEN "project-settings"
    ELSE IF fileName = Chars("settings.local.json") /\ inClaudeDir(dirPath)
    THEN "project-settings-local"
    ELSE NoMatch

\* detectClaudeFileType without the .otherwise clause
detectClaudeFileType_NoOtherwise(p) == matchRules(basename(p), dirname(p))

\* detectClaudeFileType
detectClaudeFileType(p) ==
    IF matchRules(basename(p), dirname(p)) = NoMatch
    THEN "unknown"
    ELSE matchRules(basename(p), dirname(p))

\* getFileScope
getFileScope(p) == IF includes(p, HOME_DIR) THEN "user" ELSE "project"

\* directory names and file names the classified paths are made of
DirNames ==
    {Chars("h"), Chars("p"), Chars(".claude"), Chars("commands"),
     Chars("agents")}

FileNames ==
    {Chars("CLAUDE.md"), Chars("CLAUDE.local.md"), Chars("x.md"),
     Chars("settings.json"), Chars("settings.local.json"), Chars("x")}

\* the absolute path of the file called name in the directory dirs names
RECURSIVE RenderPath(_, _)
RenderPath(dirs, name) ==
    IF dirs = <<>> THEN <<"/">> \o name
    ELSE <<"/">> \o Head(dirs) \o RenderPath(Tail(dirs), name)

\* absolute paths of files at most MaxPathDepth directories deep
ClassifierPaths ==
    {RenderPath(dirs, name) :
        dirs \in SeqsUpTo(DirNames, MaxPathDepth), name \in FileNames}

\* a path is handed to the classifier and to getFileScope
InitClassify ==
    /\ filePath \in ClassifierPaths
    /\ fileType = Undefined
    /\ fileScope = Undefined
    /\ fileGroups = <<>>
    /\ searchQuery = <<>>
    /\ UiIdle
    /\ PipeIdle
    /\ WalkIdle
    /\ SessIdle

\* detectClaudeFileType(filePath) returns
DetectType ==
    /\ fileType = Undefined
    /\ fileType' = detectClaudeFileType(filePath)
    /\ UNCHANGED <<filePath, fileScope, uiVars, pipeVars, walkVars, sessVars>>

\* getFileScope(filePath) returns
GetScope ==
    /\ fileScope = Undefined
    /\ fileScope' = getFileScope(filePath)
    /\ UNCHANGED <<filePath, fileType, uiVars, pipeVars, walkVars, sessVars>>

NextClassify == DetectType \/ GetScope

SpecClassify == InitClassify /\ [][NextClassify]_vars

\* ============================================================ properties

\* the group the cursor is in, when the filtered view has such a group
HasCurrentGroup == currentGroupIndex < Len(filteredGroups)

CurrentGroup == filteredGroups[currentGroupIndex + 1]

\* the cursor addresses an existing file of an existing, expanded group
CursorOnFile ==
    /\ ~isGroupSelected
    /\ HasCurrentGroup
    /\ CurrentGroup.isExpanded
    /\ currentFileIndex < Len(CurrentGroup.files)

\* the cursor addresses the header of an existing group
CursorOnHeader == isGroupSelected /\ HasCurrentGroup

\* the flat item the cursor stands for
CursorItem ==
    IF isGroupSelected THEN GroupItem(currentGroupIndex)
    ELSE FileItem(currentGroupIndex, currentFileIndex)

\* the linear position of the cursor: the index of its item in the flattened
\* sequence, 0 when the sequence has no such item
CursorLine ==
    IF \E i \in 1..totalLines : flatItems[i] = CursorItem
    THEN (CHOOSE i \in 1..totalLines : flatItems[i] = CursorItem) - 1
    ELSE 0

\* C1: whenever isGroupSelected is false the cursor addresses an existing
\* file of an existing, expanded group of the filtered view
C1_CursorValid == isGroupSelected \/ CursorOnFile

\* C2: the linear position of the cursor lies in
\* [scrollOffset, scrollOffset + viewportHeight)
C2_ViewportContainment ==
    /\ scrollOffset <= CursorLine
    /\ CursorLine < scrollOffset + viewportHeight(rows)

\* the list has scrolled and the cursor is on the last visible line
C2_Witness ==
    /\ scrollOffset > 0
    /\ \E i \in 1..totalLines : flatItems[i] = CursorItem
    /\ CursorLine = scrollOffset + viewportHeight(rows) - 1
    /\ lastEvent = "down"

\* the cursor a load or a query change is said to leave; a view without
\* groups has no first group and nothing is said about it
ResetCursorOK ==
    Len(filteredGroups) > 0 =>
        IF filteredGroups[1].isExpanded /\ Len(filteredGroups[1].files) > 0
        THEN currentGroupIndex = 0 /\ currentFileIndex = 0 /\ ~isGroupSelected
        ELSE currentGroupIndex = 0 /\ isGroupSelected

\* C9: after the initial load (the state a step leaves while the last event
\* is the mount) and after every change of the search query the cursor is the
\* first file of the first group when that group is expanded and non-empty,
\* and the header of the first group otherwise
C9_ResetOnQueryChange ==
    [][ /\ lastEvent = "mount" => ResetCursorOK
        /\ searchQuery' # searchQuery => ResetCursorOK' ]_vars

\* what the pure navigation utilities return for the current cursor
PureDown ==
    handleDownArrowNavigation(
        calculateNavigationPosition(filteredGroups, currentGroupIndex,
                                    currentFileIndex, isGroupSelected),
        filteredGroups, currentGroupIndex, currentFileIndex)

PureUp ==
    handleUpArrowNavigation(
        calculateNavigationPosition(filteredGroups, currentGroupIndex,
                                    currentFileIndex, isGroupSelected),
        currentGroupIndex, currentFileIndex)

PrevGroup == filteredGroups[currentGroupIndex]

HasNextGroup == currentGroupIndex + 1 < Len(filteredGroups)

NextGroup == filteredGroups[currentGroupIndex + 2]

\* the cursor (ng, nf, nsel) is the current cursor
SameCursor(ng, nf, nsel) ==
    ng = currentGroupIndex /\ nf = currentFileIndex /\ nsel = isGroupSelected

\* the cursor that move-down from a file is said to give
DownFromFileOK(ng, nf, nsel) ==
    IF currentFileIndex < Len(CurrentGroup.files) - 1
    THEN ng = currentGroupIndex /\ nf = currentFileIndex + 1 /\ ~nsel
    ELSE IF HasNextGroup
    THEN ng = currentGroupIndex + 1 /\ nsel
    ELSE SameCursor(ng, nf, nsel)

\* C4: move-down from a file goes to the next file of the group, from the
\* last file to the header of the next group (never to its first file), and
\* changes nothing when there is no next group
C4_MoveDownFromFile ==
    [][(lastEvent' = "down" /\ CursorOnFile) =>
          /\ DownFromFileOK(currentGroupIndex', currentFileIndex',
                            isGroupSelected')
          /\ DownFromFileOK(PureDown.g, PureDown.f, PureDown.sel)]_vars

\* move-down has left the last file of an expanded group and stands on the
\* header of the next group, which is expanded and has files
C4_Witness ==
    /\ lastEvent = "down"
    /\ CursorOnHeader
    /\ currentGroupIndex > 0
    /\ CurrentGroup.isExpanded /\ Len(CurrentGroup.files) > 0
    /\ PrevGroup.isExpanded /\ Len(PrevGroup.files) > 0

\* the cursor that move-down from a header is said to give
DownFromHeaderOK(ng, nf, nsel) ==
    IF CurrentGroup.isExpanded /\ Len(CurrentGroup.files) >= 1
    THEN ng = currentGroupIndex /\ nf = 0 /\ ~nsel
    ELSE IF HasNextGroup
    THEN ng = currentGroupIndex + 1 /\ nsel
    ELSE SameCursor(ng, nf, nsel)

\* C5: move-down from a header enters the group at its first file when the
\* group is expanded and has files, goes to the next header otherwise, and
\* changes nothing when there is no next group
C5_MoveDownFromHeader ==
    [][(lastEvent' = "down" /\ CursorOnHeader) =>
          /\ DownFromHeaderOK(currentGroupIndex', currentFileIndex',
                              isGroupSelected')
          /\ DownFromHeaderOK(PureDown.g, PureDown.f, PureDown.sel)]_vars

\* move-down has entered a group other than the first at its first file
C5_Witness ==
    /\ lastEvent = "down"
    /\ CursorOnFile
    /\ currentFileIndex = 0
    /\ currentGroupIndex > 0

\* the cursor that move-up from a header is said to give
UpFromHeaderOK(ng, nf, nsel) ==
    IF currentGroupIndex > 0
    THEN IF PrevGroup.isExpanded /\ Len(PrevGroup.files) >= 1
         THEN /\ ng = currentGroupIndex - 1
              /\ nf = Len(PrevGroup.files) - 1
              /\ ~nsel
         ELSE ng = currentGroupIndex - 1 /\ nsel
    ELSE SameCursor(ng, nf, nsel)

\* C6: move-up from a header goes to the last file of the previous group
\* when that group is expanded and has files, to its header when it is
\* collapsed or empty, and changes nothing when there is no previous group
C6_MoveUpFromHeader ==
    [][(lastEvent' = "up" /\ CursorOnHeader) =>
          /\ UpFromHeaderOK(currentGroupIndex', currentFileIndex',
                            isGroupSelected')
          /\ UpFromHeaderOK(PureUp.g, PureUp.f, PureUp.sel)]_vars

\* move-up has entered a group of two or more files at its last file
C6_Witness ==
    /\ lastEvent = "up"
    /\ CursorOnFile
    /\ currentFileIndex = Len(CurrentGroup.files) - 1
    /\ currentFileIndex > 0
    /\ HasNextGroup

\* the cursor that move-up from a file is said to give
UpFromFileOK(ng, nf, nsel) ==
    IF currentFileIndex > 0
    THEN ng = currentGroupIndex /\ nf = currentFileIndex - 1 /\ ~nsel
    ELSE ng = currentGroupIndex /\ nsel

\* C7: move-up from a file goes to the previous file of the group, and from
\* the first file to the header of the same group
C7_MoveUpFromFile ==
    [][(lastEvent' = "up" /\ CursorOnFile) =>
          /\ UpFromFileOK(currentGroupIndex', currentFileIndex',
                          isGroupSelected')
          /\ UpFromFileOK(PureUp.g, PureUp.f, PureUp.sel)]_vars

\* move-up has left the first file of a group other than the first and
\* stands on the header of that group
C7_Witness ==
    /\ lastEvent = "up"
    /\ CursorOnHeader
    /\ currentGroupIndex > 0
    /\ CurrentGroup.isExpanded /\ Len(CurrentGroup.files) > 0

\* the type sequence of the built groups
GroupTypes == [i \in 1..Len(fileGroups) |-> fileGroups[i].type]

TenKnownTypes ==
    <<"user-memory", "user-settings", "personal-command", "user-subagent",
      "project-memory", "project-memory-local", "project-settings",
      "project-settings-local", "project-command", "project-subagent">>

HasUnknownFile == \E i \in 1..Len(allFiles) : allFiles[i].type = "unknown"

\* C3: the built groups have the ten known types in the canonical order,
\* each once, followed by an unknown group exactly when a record has type
\* unknown
C3_CanonicalOrder ==
    stage # "scanned" =>
        IF HasUnknownFile
        THEN GroupTypes = Append(TenKnownTypes, "unknown")
        ELSE GroupTypes = TenKnownTypes

\* groups were built from records that arrive out of the canonical order
\* and include an unknown record
C3_Witness ==
    /\ stage = "built"
    /\ Len(allFiles) >= 3
    /\ allFiles[1].type = "unknown"
    /\ allFiles[2].type = "project-command"
    /\ allFiles[3].type = "user-memory"
    /\ Len(fileGroups) = 11

\* s contains q as a substring when case is ignored
ContainsIgnoringCase(s, q) ==
    \E i \in 0..(Len(s) - Len(q)) :
        \A j \in 1..Len(q) : LowerChar(s[i + j]) = LowerChar(q[j])

\* the part of a path after its last slash
LastSegment(p) ==
    IF \E i \in 1..Len(p) : p[i] = "/"
    THEN LET last == CHOOSE i \in 1..Len(p) :
                         p[i] = "/" /\ \A j \in (i + 1)..Len(p) : p[j] # "/"
         IN  [k \in 1..(Len(p) - last) |-> p[last + k]]
    ELSE p

FileMatches(file, q) ==
    \/ ContainsIgnoringCase(LastSegment(file.path), q)
    \/ ContainsIgnoringCase(file.path, q)

\* the index of the group of type t in gs
IndexOfType(gs, t) == CHOOSE i \in 1..Len(gs) : gs[i].type = t

\* the index of file x in fs
IndexOfFile(fs, x) == CHOOSE i \in 1..Len(fs) : fs[i] = x

\* out holds exactly the files of src that match q, in the order of src
IsMatchingSubsequence(out, src, q) ==
    /\ Range(out) = {x \in Range(src) : FileMatches(x, q)}
    /\ \A a, b \in 1..Len(out) :
        a < b => IndexOfFile(src, out[a]) < IndexOfFile(src, out[b])

\* C10: for a non-empty query the filtered view holds, in their original
\* order, exactly the groups with a matching file; each holds exactly its
\* matching files in order and keeps its isExpanded; none is empty
C10_FilterResult ==
    (stage = "filtered" /\ searchQuery # <<>>) =>
        /\ \A i \in 1..Len(fileGroups) :
            (\E x \in Range(fileGroups[i].files) : FileMatches(x, searchQuery))
                <=> (\E k \in 1..Len(filtered) :
                        filtered[k].type = fileGroups[i].type)
        /\ \A k \in 1..Len(filtered) :
            /\ \E i \in 1..Len(fileGroups) :
                fileGroups[i].type = filtered[k].type
            /\ LET src == fileGroups[IndexOfType(fileGroups, filtered[k].type)]
               IN  /\ filtered[k].isExpanded = src.isExpanded
                   /\ IsMatchingSubsequence(filtered[k].files, src.files,
                                            searchQuery)
            /\ Len(filtered[k].files) > 0
        /\ \A a, b \in 1..Len(filtered) :
            a < b => IndexOfType(fileGroups, filtered[a].type)
                        < IndexOfType(fileGroups, filtered[b].type)

\* a query typed in upper case kept two groups, dropped the others, removed
\* a non-matching file from a kept group and kept a collapsed group collapsed
C10_Witness ==
    /\ stage = "filtered"
    /\ searchQuery = <<"B">>
    /\ Len(filtered) = 2
    /\ \E k \in 1..Len(filtered) :
        Len(filtered[k].files)
            < Len(fileGroups[IndexOfType(fileGroups, filtered[k].type)].files)
    /\ \E k \in 1..Len(filtered) : ~filtered[k].isExpanded

\* C11: filtering with the empty query returns the input groups unchanged:
\* the same groups in the same order with the same files and isExpanded
\* flags, the groups without files included
C11_FilterIdentity ==
    (stage = "filtered" /\ searchQuery = <<>>) =>
        /\ Len(filtered) = Len(fileGroups)
        /\ \A i \in 1..Len(fileGroups) :
            /\ filtered[i].type = fileGroups[i].type
            /\ filtered[i].files = fileGroups[i].files
            /\ filtered[i].isExpanded = fileGroups[i].isExpanded

\* the empty query was applied to groups of which some have no file, one
\* has files and is collapsed
C11_Witness ==
    /\ stage = "filtered"
    /\ searchQuery = <<>>
    /\ \E i \in 1..Len(fileGroups) : Len(fileGroups[i].files) = 0
    /\ \E i \in 1..Len(fileGroups) :
        Len(fileGroups[i].files) > 0 /\ ~fileGroups[i].isExpanded
    /\ Len(filtered) = Len(fileGroups)

\* C12: filtering the filtered groups again with the same query changes
\* nothing
C12_FilterIdempotent ==
    stage = "filtered" =>
        filterFileGroups(filtered, searchQuery) = filtered

\* a non-empty query kept a group with two files and dropped a group that
\* holds a file
C12_Witness ==
    /\ stage = "filtered"
    /\ searchQuery # <<>>
    /\ \E k \in 1..Len(filtered) : Len(filtered[k].files) = 2
    /\ \E i \in 1..Len(fileGroups) :
        /\ Len(fileGroups[i].files) > 0
        /\ \A k \in 1..Len(filtered) : filtered[k].type # fileGroups[i].type
    /\ filterFileGroups(filtered, searchQuery) = filtered

\* number of files in the expanded groups among the first n groups
RECURSIVE ExpandedFilesBefore(_, _)
ExpandedFilesBefore(groups, n) ==
    IF n = 0 THEN 0
    ELSE ExpandedFilesBefore(groups, n - 1)
         + (IF groups[n].isExpanded THEN Len(groups[n].files) ELSE 0)

\* the linear position (0-based) of the header of group gi (0-based)
HeaderPosition(groups, gi) == gi + ExpandedFilesBefore(groups, gi)

\* items is the flattened sequence of groups: every header at its position,
\* the files of an expanded group right after its header, nothing else
IsFlattened(items, groups) ==
    /\ Len(items) = Len(groups) + ExpandedFilesBefore(groups, Len(groups))
    /\ \A gi \in 0..(Len(groups) - 1) :
        /\ items[HeaderPosition(groups, gi) + 1] = GroupItem(gi)
        /\ groups[gi + 1].isExpanded =>
            \A fi \in 0..(Len(groups[gi + 1].files) - 1) :
                items[HeaderPosition(groups, gi) + fi + 2] = FileItem(gi, fi)
    /\ Cardinality({k \in 1..Len(items) : items[k].type = "group"})
            = Len(groups)
    /\ Cardinality({k \in 1..Len(items) : items[k].type = "file"})
            = ExpandedFilesBefore(groups, Len(groups))
    /\ Len(groups) > 0 => items[1] = GroupItem(0)

\* C13: the flattened sequence of the built groups and of the filtered
\* groups is one header per group in order, each followed by one item per
\* file exactly when the group is expanded
C13_Flattening ==
    /\ stage # "scanned" =>
            IsFlattened(flattenFileGroups(fileGroups), fileGroups)
    /\ stage = "filtered" =>
            IsFlattened(flattenFileGroups(filtered), filtered)

\* ten known groups of which project-memory and project-command are
\* expanded with one file each flatten to 12 items
C13_Witness ==
    /\ stage = "built"
    /\ Len(fileGroups) = 10
    /\ \A i \in 1..Len(fileGroups) :
        fileGroups[i].isExpanded
            <=> fileGroups[i].type \in {"project-memory", "project-command"}
    /\ \A i \in 1..Len(fileGroups) :
        fileGroups[i].isExpanded => Len(fileGroups[i].files) = 1
    /\ Len(flattenFileGroups(fileGroups)) = 12

\* C14: the stored scrollOffset lies in 0 .. max(0, totalLines -
\* viewportHeight) in every state of the list
C14_ScrollOffsetRange ==
    /\ 0 <= scrollOffset
    /\ scrollOffset <= Max(0, totalLines - viewportHeight(rows))

\* the cursor (g, f, sel) stands on an item of the flattened sequence of fg
OnItem(fg, g, f, sel) ==
    /\ g < Len(fg)
    /\ sel \/ (fg[g + 1].isExpanded /\ f < Len(fg[g + 1].files))

\* the linear position of the item the cursor (g, f, sel) stands on
LineOf(fg, g, f, sel) ==
    IF sel THEN HeaderPosition(fg, g) ELSE HeaderPosition(fg, g) + f + 1

CursorOnItem ==
    \E fg \in {filteredGroups} :
        OnItem(fg, currentGroupIndex, currentFileIndex, isGroupSelected)

\* the scroll offset the minimal-scroll policy gives for a previous offset,
\* a cursor line and a viewport height
MinimalScroll(so, line, vh) ==
    IF line < so THEN line
    ELSE IF line >= so + vh THEN line - vh + 1
    ELSE so

\* C15: a move or a resize leaves the groups and the query alone, and when
\* it makes the scroll adjustment run on a cursor that stands on an item,
\* the new scrollOffset is the cursor's line if the line is above the
\* window, the offset that makes it the last visible line if it is at or
\* past the bottom, and the old scrollOffset otherwise
C15_MinimalScroll ==
    [][lastEvent' \in {"up", "down", "resize"} =>
        /\ fileGroups' = fileGroups
        /\ searchQuery' = searchQuery
        /\ \E fg \in {filteredGroups} :
            (/\ OnItem(fg, currentGroupIndex, currentFileIndex,
                       isGroupSelected)
             /\ OnItem(fg, currentGroupIndex', currentFileIndex',
                       isGroupSelected'))
            => \E line \in {LineOf(fg, currentGroupIndex',
                                     currentFileIndex', isGroupSelected')} :
                   scrollOffset' = MinimalScroll(scrollOffset, line,
                                                 viewportHeight(rows'))]_vars

\* a move down has put the cursor on the last visible line of a scrolled
\* window
C15_Witness ==
    /\ lastEvent = "down"
    /\ CursorOnItem
    /\ scrollOffset >= 2
    /\ scrollOffset = CursorLine - viewportHeight(rows) + 1

\* the screen of the session
Screen == Display(error, isLoading, files)

\* the combined result of scan number n
ResultOf(n) == combineResults(ScanOutput(scans[n].path))

\* the files of the groups, group by group
FilesByGroup(groups) == [i \in 1..Len(groups) |-> groups[i].files]

\* C16: once the scan started last has completed successfully, files and
\* groups are those of that scan, in whatever order the scans completed (a
\* result that arrives after a newer scan was started is dropped)
C16_StaleScanDropped ==
    (Len(scans) > 0 /\ scans[Len(scans)].status = "ok") =>
        /\ files = ResultOf(Len(scans))
        /\ FilesByGroup(fileGroups)
               = FilesByGroup(buildGroups(ResultOf(Len(scans))))

\* the groups on screen: those of the file list when it is shown
ShownGroups == IF Screen = "list" THEN fileGroups ELSE <<>>

\* C17: when one of the four scanners fails the error is set, loading is
\* over, the screen is the error screen (neither loading nor a list), no
\* group is shown, the stored files and groups are not those of the failed
\* scan's scanners, and the file list takes no input while the error stays
C17_ScanFailure ==
    [][ /\ lastEvent' = "scanFail" =>
            /\ Truthy(error')
            /\ ~isLoading'
            /\ Screen' = "error"
            /\ ShownGroups' = <<>>
            /\ files' = files
            /\ fileGroups' = fileGroups
        /\ Truthy(error) => lastEvent' # "toggle" ]_vars

\* the settings scanner of a scan of the home directory, whose other
\* scanners find files, has failed while an earlier list was loaded
C17_Witness ==
    /\ lastEvent = "scanFail"
    /\ lastDone.scanner = "scanSettingsJson"
    /\ scans[lastDone.n].path = "/h"
    /\ Len(files) > 0
    /\ Screen = "error"

\* a scan has failed earlier in the session
SomeScanFailed == \E n \in 1..Len(scans) : scans[n].status = "rejected"

\* C18: when a scan completes successfully after a scan of the session has
\* failed, the error state is left and the groups of that scan are shown,
\* the list being on screen when the scan found a file
C18_RecoveryAfterFailure ==
    [][(SomeScanFailed /\ lastEvent' = "scanOk") =>
        /\ ~Truthy(error')
        /\ Screen' \in {"list", "no-files"}
        /\ fileGroups' = buildGroups(ResultOf(lastDone'.n))
        /\ Len(ResultOf(lastDone'.n)) > 0 =>
            (Screen' = "list" /\ ShownGroups' = fileGroups')]_vars

\* C19: exactly one of the loading, error, no-files and list screens is
\* shown; a successful scan that returns no file yields the no-files screen;
\* the no-files screen is shown only without error and after loading; the
\* list is shown only without error, after loading and with a file
C19_DisplayStates ==
    /\ Cardinality({d \in {"loading", "error", "no-files", "list"} :
                        Screen = d}) = 1
    /\ (lastEvent = "scanOk" /\ Len(ResultOf(lastDone.n)) = 0) =>
            Screen = "no-files"
    /\ Screen = "no-files" => (~Truthy(error) /\ ~isLoading)
    /\ Screen = "list" =>
            (~Truthy(error) /\ ~isLoading /\ Len(files) > 0)

C21_ActivateOnFile ==
    [][lastEvent' = "confirm" =>
        /\ CursorOnFile =>
            /\ isMenuMode'
            /\ currentGroupIndex' = currentGroupIndex
            /\ currentFileIndex' = currentFileIndex
            /\ isGroupSelected' = isGroupSelected
            /\ searchQuery' = searchQuery
            /\ fileGroups' = fileGroups
        /\ isMenuMode' => CursorOnFile]_vars

\* the menu is open over the second file of a group while a search is active
C21_Witness ==
    /\ lastEvent = "confirm"
    /\ isMenuMode
    /\ CursorOnFile
    /\ currentFileIndex = 1
    /\ searchQuery # <<>>

\* C22: a group with zero files is never expanded, so Enter or Space on the
\* header of an empty group does not expand it
C22_EmptyUnexpandable ==
    \A i \in 1..Len(fileGroups) :
        Len(fileGroups[i].files) = 0 => ~fileGroups[i].isExpanded

\* C23: the step that builds the groups from a scan gives every group of a
\* known type isExpanded = TRUE exactly when it holds a file and gives the
\* unknown group, when there is one, isExpanded = TRUE
C23_InitialExpansion ==
    [][(stage = "scanned" /\ stage' = "built") =>
        \A i \in 1..Len(fileGroups') :
            IF fileGroups'[i].type = "unknown"
            THEN fileGroups'[i].isExpanded
            ELSE fileGroups'[i].isExpanded <=> Len(fileGroups'[i].files) > 0]_vars

\* groups were built from a scan that left a known group empty and
\* collapsed, filled another known group and filled the unknown group
C23_Witness ==
    /\ stage = "built"
    /\ fileGroups = buildGroups(allFiles)
    /\ Len(fileGroups) = 11
    /\ fileGroups[11].isExpanded
    /\ \E i \in 1..10 : fileGroups[i].files = <<>> /\ ~fileGroups[i].isExpanded
    /\ \E i \in 1..10 : Len(fileGroups[i].files) = 2 /\ fileGroups[i].isExpanded

\* C29: Backspace, Delete and Ctrl-H remove exactly the last character of
\* the query and Ctrl-U empties it; on an empty query each of them leaves
\* the query empty
C29_ClearKeys ==
    [][ /\ lastEvent' = "clearOne" =>
            searchQuery' = SubSeq(searchQuery, 1, Len(searchQuery) - 1)
        /\ lastEvent' = "clearAll" => searchQuery' = <<>> ]_vars

\* C30: a key that is none of up, down, Enter, Space, Backspace, Delete,
\* Ctrl-H, Ctrl-U, Escape or a plain printable character changes neither
\* the query, nor the cursor, nor any group
C30_OtherKeysIgnored ==
    [][lastEvent' = "other" =>
        /\ searchQuery' = searchQuery
        /\ currentGroupIndex' = currentGroupIndex
        /\ currentFileIndex' = currentFileIndex
        /\ isGroupSelected' = isGroupSelected
        /\ fileGroups' = fileGroups]_vars

\* the names between the separators of an absolute path
RECURSIVE PathSegments(_)
PathSegments(s) ==
    IF Len(s) <= 1 THEN <<>>
    ELSE LET rest == Tail(s)
             n == IF \E i \in 1..Len(rest) : rest[i] = "/"
                  THEN (CHOOSE i \in 1..Len(rest) :
                            rest[i] = "/" /\ \A j \in 1..(i - 1) : rest[j] # "/") - 1
                  ELSE Len(rest)
         IN  <<SubSeq(rest, 1, n)>> \o PathSegments(SubSeq(rest, n + 1, Len(rest)))

\* the directories the classified file lies in, outermost first, and its name
PathDirs ==
    SubSeq(PathSegments(filePath), 1, Len(PathSegments(filePath)) - 1)

PathName == PathSegments(filePath)[Len(PathSegments(filePath))]

\* the directory names of the home directory
HomeDirs == PathSegments(HOME_DIR)

\* the directories dirs hold the directories run one inside the next
ContainsRun(dirs, run) ==
    \E i \in 0..(Len(dirs) - Len(run)) :
        \A j \in 1..Len(run) : dirs[i + j] = run[j]

\* the file name ends in .md
IsMarkdown ==
    /\ Len(PathName) >= 3
    /\ PathName[Len(PathName) - 2] = "."
    /\ PathName[Len(PathName) - 1] = "m"
    /\ PathName[Len(PathName)] = "d"

IsMemoryName == PathName \in {Chars("CLAUDE.md"), Chars("CLAUDE.local.md")}

HomeClaudeDir == Append(HomeDirs, Chars(".claude"))

UnderHomeCommands ==
    ContainsRun(PathDirs, Append(HomeClaudeDir, Chars("commands")))

UnderHomeAgents ==
    ContainsRun(PathDirs, Append(HomeClaudeDir, Chars("agents")))

UnderClaudeCommands ==
    ContainsRun(PathDirs, <<Chars(".claude"), Chars("commands")>>)

UnderClaudeAgents ==
    ContainsRun(PathDirs, <<Chars(".claude"), Chars("agents")>>)

UnderClaudeDir == \E i \in 1..Len(PathDirs) : PathDirs[i] = Chars(".claude")

\* the condition of rule k of the decision list, k in 1..10
RuleHolds(k) ==
    CASE k = 1 -> PathName = Chars("CLAUDE.md") /\ PathDirs = HomeClaudeDir
      [] k = 2 -> PathName = Chars("CLAUDE.md")
      [] k = 3 -> PathName = Chars("CLAUDE.local.md")
      [] k = 4 -> IsMarkdown /\ UnderHomeCommands
      [] k = 5 -> IsMarkdown /\ UnderClaudeCommands
      [] k = 6 -> IsMarkdown /\ UnderHomeAgents
      [] k = 7 -> IsMarkdown /\ UnderClaudeAgents
      [] k = 8 -> PathName = Chars("settings.json") /\ PathDirs = HomeClaudeDir
      [] k = 9 -> PathName = Chars("settings.json") /\ UnderClaudeDir
      [] k = 10 -> PathName = Chars("settings.local.json") /\ UnderClaudeDir

\* the type rule k yields, rule 11 being the fallback
RuleResult ==
    <<"user-memory", "project-memory", "project-memory-local",
      "personal-command", "project-command", "user-subagent",
      "project-subagent", "user-settings", "project-settings",
      "project-settings-local", "unknown">>

\* the first rule of the decision list that matches the classified path
FirstRule ==
    IF \E k \in 1..10 : RuleHolds(k)
    THEN CHOOSE k \in 1..10 : RuleHolds(k) /\ \A j \in 1..(k - 1) : ~RuleHolds(j)
    ELSE 11

\* C24: for every path detectClaudeFileType returns one value of the closed
\* set of eleven types, and unknown when no rule matches the path
C24_ClassifierTotality ==
    fileType # Undefined =>
        /\ fileType \in ClaudeFileType
        /\ (\A k \in 1..10 : ~RuleHolds(k)) => fileType = "unknown"

\* a .md file in a .claude directory that is no commands or agents directory
\* was classified unknown
C24_Witness ==
    /\ fileType = "unknown"
    /\ IsMarkdown
    /\ UnderClaudeDir
    /\ \A k \in 1..10 : ~RuleHolds(k)

\* C25: detectClaudeFileType returns what the first matching rule of the
\* decision list of rules 1 to 11 yields; CLAUDE.md and CLAUDE.local.md
\* under a commands or agents directory are memory files, and a .md file
\* under the home commands (agents) directory is personal-command
\* (user-subagent), not project-command (project-subagent)
C25_ClassifierPrecedence ==
    fileType # Undefined =>
        /\ fileType = RuleResult[FirstRule]
        /\ (\E i \in 1..Len(PathDirs) :
                PathDirs[i] \in {Chars("commands"), Chars("agents")}) =>
            /\ PathName = Chars("CLAUDE.md") => fileType = "project-memory"
            /\ PathName = Chars("CLAUDE.local.md") =>
                    fileType = "project-memory-local"
        /\ (IsMarkdown /\ ~IsMemoryName /\ UnderHomeCommands) =>
                fileType = "personal-command"
        /\ (IsMarkdown /\ ~IsMemoryName /\ UnderHomeAgents) =>
            /\ fileType # "project-subagent"
            /\ ~UnderClaudeCommands => fileType = "user-subagent"

\* CLAUDE.md inside the home commands directory was classified as project
\* memory
C25_Witness ==
    /\ fileType = "project-memory"
    /\ PathName = Chars("CLAUDE.md")
    /\ UnderHomeCommands
    /\ FirstRule = 2

\* the types of user scope and of project scope among the memory, command
\* and sub-agent types
UserScopeTypes == {"user-memory", "personal-command", "user-subagent"}

ProjectScopeTypes ==
    {"project-memory", "project-memory-local", "project-command",
     "project-subagent"}

\* C26: for a path classified as a memory, command or sub-agent type
\* getFileScope returns user exactly when the type is of user scope and
\* project exactly when it is of project scope
C26_ScopeAgreement ==
    (/\ fileType \in UserScopeTypes \cup ProjectScopeTypes
     /\ fileScope # Undefined) =>
        /\ fileScope = "user" <=> fileType \in UserScopeTypes
        /\ fileScope = "project" <=> fileType \in ProjectScopeTypes

\* the file lies in a project inside the home directory and not in the
\* home directory's own .claude directory
InHomeNestedProject ==
    /\ Len(PathDirs) > Len(HomeDirs)
    /\ SubSeq(PathDirs, 1, Len(HomeDirs)) = HomeDirs

\* C27 as stated: every .md file under .claude/commands (.claude/agents) of
\* a project inside the home directory, the home commands (agents)
\* directory excepted, is project-command (project-subagent)
C27_AnyMarkdownFile ==
    (fileType # Undefined /\ IsMarkdown /\ InHomeNestedProject) =>
        /\ (UnderClaudeCommands /\ ~UnderHomeCommands) =>
                fileType = "project-command"
        /\ (UnderClaudeAgents /\ ~UnderHomeAgents) =>
                fileType = "project-subagent"

\* C27: a .md file other than CLAUDE.md and CLAUDE.local.md under
\* .claude/commands of a project inside the home directory whose path does
\* not contain the home commands directory is project-command; under
\* .claude/agents, with neither the home agents directory nor a
\* .claude/commands directory in its path, it is project-subagent;
\* personal-command (user-subagent) is returned only for paths that
\* contain the home commands (agents) directory
C27_HomeNestedProjects ==
    fileType # Undefined =>
        /\ (IsMarkdown /\ ~IsMemoryName /\ InHomeNestedProject) =>
            /\ (UnderClaudeCommands /\ ~UnderHomeCommands) =>
                    fileType = "project-command"
            /\ (/\ UnderClaudeAgents /\ ~UnderHomeAgents
                /\ ~UnderClaudeCommands) =>
                    fileType = "project-subagent"
        /\ fileType = "personal-command" => UnderHomeCommands
        /\ fileType = "user-subagent" => UnderHomeAgents

\* a command file of a project inside the home directory was classified
\* project-command
C27_Witness ==
    /\ fileType = "project-command"
    /\ PathName = Chars("x.md")
    /\ PathDirs = HomeDirs \o <<Chars("p"), Chars(".claude"), Chars("commands")>>

\* C28: settings.json and settings.local.json with no .claude directory in
\* the path are unknown; settings.json directly inside the home .claude
\* directory is user-settings and inside any other .claude directory
\* project-settings
C28_SettingsOutsideClaude ==
    fileType # Undefined =>
        /\ (/\ PathName \in {Chars("settings.json"), Chars("settings.local.json")}
            /\ ~UnderClaudeDir) => fileType = "unknown"
        /\ PathName = Chars("settings.json") =>
            /\ PathDirs = HomeClaudeDir => fileType = "user-settings"
            /\ (\E i \in 1..Len(PathDirs) :
                    /\ PathDirs[i] = Chars(".claude")
                    /\ SubSeq(PathDirs, 1, i) # HomeClaudeDir) =>
                    fileType = "project-settings"

\* settings.json in a commands directory outside every .claude directory
\* was classified unknown
C28_Witness ==
    /\ fileType = "unknown"
    /\ PathName = Chars("settings.json")
    /\ PathDirs = <<Chars("p"), Chars("commands")>>

\* C31: Escape with a non-empty query empties the query and does not end
\* the session; Escape with an empty query ends the session; Escape leaves
\* every group as it was
C31_Escape ==
    [][lastEvent' = "escape" =>
        /\ searchQuery # <<>> => (searchQuery' = <<>> /\ ~exited')
        /\ searchQuery = <<>> => exited'
        /\ fileGroups' = fileGroups]_vars

\* Escape has emptied a query of two characters while a group is toggled
\* and the session goes on
C31_Witness ==
    /\ lastEvent = "escape"
    /\ ~exited
    /\ searchQuery = <<>>
    /\ Toggled(fileGroups) = 1

\* C32: the more-above indicator is on exactly when scrollOffset > 0 and
\* the more-below indicator exactly when scrollOffset + viewportHeight <
\* totalLines; when the flattened sequence is empty no item is visible and
\* both indicators are off
C32_ScrollIndicators ==
    /\ hasTopIndicator(scrollOffset) <=> scrollOffset > 0
    /\ hasBottomIndicator(scrollOffset, viewportHeight(rows), totalLines)
            <=> scrollOffset + viewportHeight(rows) < totalLines
    /\ totalLines = 0 =>
        /\ visibleItems(flatItems, scrollOffset, viewportHeight(rows)) = <<>>
        /\ ~hasTopIndicator(scrollOffset)
        /\ ~hasBottomIndicator(scrollOffset, viewportHeight(rows), totalLines)

\* a typed character has left a search that matches nothing on a terminal
\* of 14 rows
C32_Witness ==
    /\ lastEvent = "char"
    /\ rows = 14
    /\ Len(searchQuery) = 2
    /\ totalLines = 0
    /\ visibleItems(flatItems, scrollOffset, viewportHeight(rows)) = <<>>

\* C37: the more-above indicator is on exactly when the first visible item
\* is not item 0 of the flattened sequence, and the count it shows, the
\* stored scrollOffset, is the number of items before the first visible one
C37_TopIndicatorAccuracy ==
    /\ hasTopIndicator(scrollOffset)
            <=> viewStart(scrollOffset, totalLines, viewportHeight(rows)) > 0
    /\ scrollOffset = viewStart(scrollOffset, totalLines, viewportHeight(rows))

\* C34: in every built group the files are in ascending order of the
\* basename of their path, and files with equal basenames are in the order
\* they have in the combined scan result
C34_OrderWithinGroup ==
    stage # "scanned" =>
        \A g \in 1..Len(fileGroups) :
            \A a, b \in 1..Len(fileGroups[g].files) :
                a < b =>
                    LET x == fileGroups[g].files[a]
                        y == fileGroups[g].files[b]
                        order == localeCompare(LastSegment(x.path),
                                               LastSegment(y.path))
                    IN  /\ order <= 0
                        /\ order = 0 =>
                            IndexOfFile(allFiles, x) < IndexOfFile(allFiles, y)

\* a group was built from three files of its type that arrived with the
\* smallest basename between two files of one greater basename
C34_Witness ==
    /\ stage = "built"
    /\ allFiles = <<F2, F7, F1>>
    /\ \E g \in 1..Len(fileGroups) : fileGroups[g].files = <<F7, F2, F1>>

\* C36: from a cursor that stands on the item at linear position i of the
\* flattened sequence of the filtered view, move-down puts the cursor on the
\* item at position i + 1, or leaves it on the last item, and move-up puts
\* it on the item at position i - 1, or leaves it on item 0
C36_NavigationFollowsFlattener ==
    [][lastEvent' \in {"up", "down"} =>
        /\ fileGroups' = fileGroups
        /\ searchQuery' = searchQuery
        /\ \E items \in {flatItems} :
            \A i \in 1..Len(items) :
                ItemIsCurrent(items[i], currentGroupIndex, currentFileIndex,
                              isGroupSelected) =>
                    ItemIsCurrent(items[IF lastEvent' = "down"
                                        THEN Min(i + 1, Len(items))
                                        ELSE Max(i - 1, 1)],
                                  currentGroupIndex', currentFileIndex',
                                  isGroupSelected')]_vars

\* a move up has put the cursor on the last of two or more files of a group
\* while a search is active and a group is collapsed
C36_Witness ==
    /\ lastEvent = "up"
    /\ searchQuery # <<>>
    /\ Toggled(fileGroups) = 1
    /\ CursorOnFile
    /\ currentFileIndex >= 1
    /\ currentFileIndex = Len(CurrentGroup.files) - 1

\* terminal rows less the reserved rows, kept within 5 to 20, with 24 rows
\* when the terminal reports none
ClampedHeight ==
    LET r == IF rows = NoRows THEN 24 ELSE rows
    IN  IF r - 9 < 5 THEN 5 ELSE IF r - 9 > 20 THEN 20 ELSE r - 9

C35_NoStaleSelection ==
    [][searchQuery' # searchQuery =>
        \E fg \in {filterFileGroups(fileGroups', searchQuery')} :
            selectedFile' =
                IF hasCurrentFile(fg, currentGroupIndex', currentFileIndex',
                                  isGroupSelected')
                THEN fg[currentGroupIndex' + 1].files[currentFileIndex' + 1]
                ELSE selectedFile]_vars

\* C38: two printable keys handled before the list renders again append
\* two characters to the query, and two Backspace keys remove two (or all
\* that are left)
C38_NoLostKeystrokes ==
    [][/\ lastEvent' = "burstChars" =>
            /\ Len(searchQuery') = Len(searchQuery) + 2
            /\ SubSeq(searchQuery', 1, Len(searchQuery)) = searchQuery
       /\ lastEvent' = "burstClears" =>
            /\ Len(searchQuery') = Max(Len(searchQuery) - 2, 0)
            /\ searchQuery' = SubSeq(searchQuery, 1, Len(searchQuery'))]_vars

\* C39: once the effects have settled, a cursor that is file-selected on an
\* existing file of an expanded group of the filtered view has that file as
\* the selected file; a move up or down that ends on a header or in an empty
\* view leaves the selected file as it was
C39_SelectionFollowsCursor ==
    /\ [](hasCurrentFile(filteredGroups, currentGroupIndex, currentFileIndex,
                         isGroupSelected) =>
            selectedFile = filteredGroups[currentGroupIndex + 1]
                                .files[currentFileIndex + 1])
    /\ [][/\ lastEvent' \in {"up", "down"}
          /\ isGroupSelected' \/ filteredGroups = <<>>
          => selectedFile' = selectedFile]_vars

\* a move down has taken the cursor from the file of one group to the file
\* of the next under a search, and that file is the selected one
C39_Witness ==
    /\ lastEvent = "down"
    /\ searchQuery # <<>>
    /\ CursorOnFile
    /\ currentGroupIndex >= 1
    /\ selectedFile = CurrentGroup.files[currentFileIndex + 1]
    /\ selectedFile # F5

\* C40: a key received by the list while the menu is open changes none of
\* cursor, search query, group expansion and scroll offset and leaves the
\* menu open; closing the menu changes none of them either
C40_MenuFreezesList ==
    [][lastEvent' \in {"menuKey", "closeMenu"} =>
        /\ currentGroupIndex' = currentGroupIndex
        /\ currentFileIndex' = currentFileIndex
        /\ isGroupSelected' = isGroupSelected
        /\ searchQuery' = searchQuery
        /\ fileGroups' = fileGroups
        /\ scrollOffset' = scrollOffset
        /\ ~exited'
        /\ isMenuMode' = (lastEvent' = "menuKey")]_vars

\* a key has been received while the menu is open over a file found by a
\* search
C40_Witness ==
    /\ lastEvent = "menuKey"
    /\ isMenuMode
    /\ searchQuery # <<>>
    /\ CursorOnFile
    /\ currentGroupIndex >= 1

\* the walk's cursor stands on an item of the flattened sequence
WalkOnItem == \E i \in 1..Len(navItems) : navItems[i] = ItemOfCursor(navCursor)

\* C8: N move-downs from the first item (N the number of flat items) end on
\* the last item and further move-downs leave the cursor there; move-ups
\* from any item end on the first group header and further move-ups leave
\* the cursor there; the cursor stands on an item throughout
C8_BoundariesAbsorbing ==
    walkDir # "none" =>
        /\ WalkOnItem
        /\ (walkDir = "down" /\ walkSteps >= Len(navItems)) =>
                navItems[Len(navItems)] = ItemOfCursor(navCursor)
        /\ (walkDir = "up" /\ walkSteps >= walkStart) =>
                (navCursor.g = 0 /\ navCursor.sel)

\* a walk down over six or more items has made two moves more than there
\* are items
C8_Witness ==
    /\ walkDir = "down"
    /\ Len(navItems) >= 6
    /\ walkSteps = Len(navItems) + 2
    /\ navItems[Len(navItems)] = ItemOfCursor(navCursor)

====
